---- MODULE Spec2Model ----
(***************************************************************************)
(* Delta-stepping single-source shortest paths on a fixed-task worker     *)
(* pool: CompletelyBalancedDeltaStepping (sequential prefix partitioner)  *)
(* and CompletelyBalancedDeltaStepping2 (two-pass parallel prefix), the   *)
(* CircularVector bucket, the atomic request slots and FixedTaskPool.     *)
(* Distances, weights and delta are naturals; +infinity is INF_MAX.       *)
(***************************************************************************)
EXTENDS Integers, Sequences, FiniteSets, TLC

\* ---------------------------------------------------------------- bounds
MaxW == 2
MaxDelta == 2
MaxThreads == 2

\* std::numeric_limits<double>::infinity(), larger than every path weight
INF_MAX == 99

\* size_t arithmetic wraps; TLC's integers are 32 bits wide, SIZE_MOD stands for 2^64
SIZE_MOD == 1048576

\* ------------------------------------------------------------ pure helpers
Min(a, b) == IF a < b THEN a ELSE b

Max(a, b) == IF a > b THEN a ELSE b

SetMax(S) == CHOOSE x \in S : \A y \in S : x >= y

CeilDiv(a, b) == (a + b - 1) \div b

\* size_t subtraction
SizeSub(a, b) == (a - b + SIZE_MOD) % SIZE_MOD

isinf(x) == x >= INF_MAX

RECURSIVE SeqMaxW(_)
SeqMaxW(s) == IF s = << >> THEN 0 ELSE Max(Head(s).w, SeqMaxW(Tail(s)))

\* Graph::Graph: adj[u] in the order of the edge list, max_L cached
GraphCtor(n, edges) ==
    [adj |-> [u \in 0..(n - 1) |->
                 LET mine == SelectSeq(edges, LAMBDA e : e.u = u)
                 IN  [i \in 1..Len(mine) |-> [v |-> mine[i].v, w |-> mine[i].w]]],
     max_L |-> SeqMaxW(edges)]

graph_size(g) == Cardinality(DOMAIN g.adj)

get_max_edge_weight(g) == g.max_L

adj_size(g, u) == Len(g.adj[u])

MaxEdgesOf(g) == SetMax({Len(g.adj[u]) : u \in DOMAIN g.adj})

\* ------------------------------------------------------------------ inputs
\* The graphs compute is run on: a vertex count, a source and an edge list
\* <<u, v>> per shape, every edge weighted with every weight of 0..MaxW.
Shapes ==
    { [n |-> 1, source |-> 0, edges |-> << >>],
      [n |-> 1, source |-> 0, edges |-> << <<0, 0>> >>],
      [n |-> 2, source |-> 0, edges |-> << >>],
      [n |-> 2, source |-> 1, edges |-> << <<1, 0>> >>],
      [n |-> 2, source |-> 0, edges |-> << <<0, 1>>, <<0, 1>> >>],
      [n |-> 2, source |-> 1, edges |-> << <<1, 0>>, <<0, 1>> >>],
      [n |-> 3, source |-> 0, edges |-> << <<0, 1>>, <<0, 2>>, <<1, 2>> >>],
      [n |-> 3, source |-> 0, edges |-> << <<0, 1>>, <<0, 1>>, <<2, 1>> >>] }

\* the graphs the parallel-prefix solver is run on
Shapes2 ==
    { [n |-> 1, source |-> 0, edges |-> << >>],
      [n |-> 1, source |-> 0, edges |-> << <<0, 0>> >>],
      [n |-> 2, source |-> 0, edges |-> << >>],
      [n |-> 2, source |-> 1, edges |-> << <<1, 0>> >>],
      [n |-> 2, source |-> 0, edges |-> << <<0, 1>>, <<0, 1>> >>],
      [n |-> 2, source |-> 1, edges |-> << <<1, 0>>, <<0, 1>> >>],
      [n |-> 3, source |-> 0, edges |-> << <<0, 1>>, <<1, 2>> >>] }

Weights(shape) == [1..Len(shape.edges) -> 0..MaxW]

WeightedEdges(shape, ws) ==
    [i \in 1..Len(shape.edges) |->
        [u |-> shape.edges[i][1], v |-> shape.edges[i][2], w |-> ws[i]]]

\* ------------------------------------------------------------------- state
VARIABLES
    solver,                  \* 1: CompletelyBalancedDeltaStepping, 2: ...DeltaStepping2
    graph, source, delta, num_threads,
    dist, position_in_bucket, buckets,
    light_nodes_requested, heavy_nodes_requested,
    light_nodes_counter, heavy_nodes_counter,
    light_request_map, heavy_request_map,
    current_generation, generations_without_bucket,
    prefix, thread_totals, thread_pref, curr_ptr,
    cpc, cl,                 \* the controlling thread: position and locals
    tasks, ready, stopped,   \* FixedTaskPool
    wpc, wl,                 \* the worker threads: position and locals
    barrier, arrived_phase,  \* std::barrier and the phase each participant arrived in
    nodes, max_bucket_size,  \* DeltaSteppingParallel: the list nodes, the bucket count
    Rl, Rh, Rl_map, Rh_map,  \* DeltaSteppingParallel: the requests and their positions
    running, num_active_workers,     \* FlexiblePool
    ub,                      \* the undefined behaviour met so far
    hist                     \* history: what was requested, drained and run so far

inputs == <<solver, graph, source, delta, num_threads>>

algo == <<dist, position_in_bucket, buckets, light_nodes_requested, heavy_nodes_requested,
          light_nodes_counter, heavy_nodes_counter, light_request_map, heavy_request_map,
          current_generation, generations_without_bucket, prefix, thread_totals,
          thread_pref, curr_ptr>>

pool == <<tasks, ready, stopped, wpc, wl, barrier, arrived_phase>>

\* the state of the queue-backed solver and of its pool
queued == <<nodes, max_bucket_size, Rl, Rh, Rl_map, Rh_map, running, num_active_workers>>

vars == <<inputs, algo, cpc, cl, pool, queued, ub, hist>>

n == graph_size(graph)

V == 0..(n - 1)

Workers == 0..(num_threads - 1)

\* the controlling thread's index among the barrier's participants
Controller == num_threads

\* a variant of MAX_BUCKET_COUNT without the spare slots
MAX_BUCKET_COUNT_tight == CeilDiv(get_max_edge_weight(graph), delta)

MAX_BUCKET_COUNT == CeilDiv(get_max_edge_weight(graph), delta) + 5

\* get_bucket applied to a distance value
get_bucket(d) == IF d = INF_MAX THEN 0 - 1 ELSE (d \div delta) % MAX_BUCKET_COUNT

\* --------------------------------------------------------- CircularVector
\* CircularVector(capacity): raw storage, head = 0, tail = 0
CircularVector(capacity) ==
    [kind |-> "cas", data |-> [i \in 0..(capacity - 1) |-> 0 - 2], head |-> 0,
     tail |-> 0, capacity |-> capacity]

cv_empty(b) == b.head = b.tail

cv_size(b) == IF b.tail >= b.head THEN b.tail - b.head ELSE b.capacity - b.head + b.tail

\* operator[](index)
cv_at(b, index) == b.data[(b.head + index) % b.capacity]

cv_set(b, index, value) ==
    [b EXCEPT !.data[(b.head + index) % b.capacity] = value]

\* clear()
cv_clear(b) == [b EXCEPT !.head = 0, !.tail = 0]

\* a variant of cv_advance that leaves the tail where it is
cv_advance_stuck(b) == b

\* push, first half: the successful compare_exchange on tail
cv_advance(b) == [b EXCEPT !.tail = (b.tail + 1) % b.capacity]

\* a variant of cv_relative_idx that returns the size after the push
cv_relative_idx_after(b, current_tail) ==
    IF current_tail >= b.head THEN current_tail - b.head + 1
    ELSE b.capacity - b.head + current_tail + 1

\* push, second half: the index returned for a reserved tail value
cv_relative_idx(b, current_tail) ==
    IF current_tail >= b.head THEN current_tail - b.head
    ELSE b.capacity - b.head + current_tail

cv_construct(b, current_tail, value) == [b EXCEPT !.data[current_tail] = value]

\* The CircularVector of src/unnamed/part_009: capacity_ + 1 slots, no head, the
\* tail advanced by fetch_add
FetchAddVector(capacity_) ==
    [kind |-> "faa", data |-> [i \in 0..capacity_ |-> 0 - 2], head |-> 0, tail |-> 0,
     capacity |-> capacity_ + 1]

fa_empty(b) == b.tail = 0

fa_size(b) == b.tail

fa_at(b, index) == b.data[index]

fa_set(b, index, value) == [b EXCEPT !.data[index] = value]

fa_clear(b) == [b EXCEPT !.tail = 0]

\* push, first half: tail.fetch_add(1)
fa_advance(b) == [b EXCEPT !.tail = b.tail + 1]

fa_construct(b, current_tail, value) == [b EXCEPT !.data[current_tail] = value]

\* the bucket type the solver is built with, one of the two CircularVector headers
NewBucket(kind, capacity) ==
    IF kind = "faa" THEN FetchAddVector(capacity) ELSE CircularVector(capacity)

bucket_empty(b) == IF b.kind = "faa" THEN fa_empty(b) ELSE cv_empty(b)

bucket_size(b) == IF b.kind = "faa" THEN fa_size(b) ELSE cv_size(b)

bucket_at(b, index) == IF b.kind = "faa" THEN fa_at(b, index) ELSE cv_at(b, index)

bucket_set(b, index, value) ==
    IF b.kind = "faa" THEN fa_set(b, index, value) ELSE cv_set(b, index, value)

bucket_clear(b) == IF b.kind = "faa" THEN fa_clear(b) ELSE cv_clear(b)

bucket_advance(b) == IF b.kind = "faa" THEN fa_advance(b) ELSE cv_advance(b)

\* the index push returns for the tail value it reserved
bucket_relative_idx(b, current_tail) ==
    IF b.kind = "faa" THEN current_tail ELSE cv_relative_idx(b, current_tail)

bucket_construct(b, current_tail, value) ==
    IF b.kind = "faa" THEN fa_construct(b, current_tail, value)
    ELSE cv_construct(b, current_tail, value)


\* -------------------------------------------------------------- initial state
NoTask == [kind |-> "none", a |-> 0, b |-> 0, c |-> 0, heavy |-> FALSE]

NoLocals ==
    [start_e |-> 0, end_e |-> 0, node_idx |-> 0, k |-> 0, curr_edge |-> 0,
     v |-> 0, new_distance |-> 0, curr_state |-> 0, curr_idx |-> 0, heavy |-> FALSE,
     idx_r |-> 0, end |-> 0, current_tail |-> 0, new_bucket |-> 0, in_for |-> FALSE]

NoCtrl ==
    [phase |-> "-", tid |-> 0, curr_bucket_size |-> 0, total_edges |-> 0, edge_chunk |-> 0,
     requests_size |-> 0, chunk_size |-> 0, nodes_per_thread |-> 0]

\* History of the run, read by the properties only. calls: the number of
\* add_request calls per vertex since the index counter was last reset.
\* phase_issued: the least distance of the add_request calls entered for a vertex
\* in the current request-generation phase. issued and completed: the least
\* distance of the add_request calls entered, and returned, for a vertex since
\* its slot was last drained. drains: the relax calls of the
\* current phase. pending: the value the tail held when a push call in flight
\* advanced it. pushes: the push calls completed in the current phase, each with
\* that value, the index it returned and the vertex pushed. run and first: which
\* call of compute this is, and what the call before it returned. generation: the
\* number of increments of the for statement, not wrapped. found_empty: the slots
\* whose while condition found them empty since a slot was last found to hold
\* entries. pushed: the pushes made on each slot since its last clear. log: the
\* lines written to std::cerr. examined: how often each edge of the bucket
\* snapshot, as <<index in the bucket, index in the adjacency list>>, was examined
\* in the current request-generation phase. relowered: the vertices a light
\* relax call lowered into the bucket being drained since that bucket was last
\* cleared. submitted and ran: the tasks handed to, and started by, each
\* worker since the controller last left the barrier.
\* stack_in: the elements a push of LockFreeStack has made the head.
\* stack_out: the elements the pops of LockFreeStack return, in the order
\* they read them.
NoHist(nn, nt) ==
    [calls |-> [h \in BOOLEAN |-> [v \in 0..(nn - 1) |-> 0]],
     phase_issued |-> [h \in BOOLEAN |-> [v \in 0..(nn - 1) |-> INF_MAX]],
     issued |-> [h \in BOOLEAN |-> [v \in 0..(nn - 1) |-> INF_MAX]],
     completed |-> [h \in BOOLEAN |-> [v \in 0..(nn - 1) |-> INF_MAX]],
     drains |-> {},
     pending |-> [w \in 0..(nt - 1) |-> 0],
     pushes |-> {},
     submitted |-> [w \in 0..(nt - 1) |-> << >>],
     ran |-> [w \in 0..(nt - 1) |-> << >>],
     run |-> 1,
     first |-> << >>,
     first_delta |-> 0,
     first_threads |-> 0,
     generation |-> 0,
     found_empty |-> {},
     pushed |-> (0 :> 1),
     log |-> << >>,
     examined |-> << >>,
     relowered |-> {},
     stack_in |-> {},
     stack_out |-> << >>]

\* the number of push calls that advanced the tail of bucket slot i since the
\* slot was last cleared (the push of the source at line 50 included)
PushedIn(h, i) == IF i \in DOMAIN h.pushed THEN h.pushed[i] ELSE 0

CountPush(h, i) == [h EXCEPT !.pushed = (i :> (PushedIn(h, i) + 1)) @@ h.pushed]

CountClear(h, i) ==
    [h EXCEPT !.pushed = [j \in DOMAIN h.pushed \ {i} |-> h.pushed[j]]]

\* compute up to the construction of the pool: lines 30-117 (279-366)
\* the state of the variables a solver without FlexiblePool never touches
NoQueueState ==
    /\ nodes = << >>
    /\ max_bucket_size = 0
    /\ Rl = << >>
    /\ Rh = << >>
    /\ Rl_map = << >>
    /\ Rh_map = << >>
    /\ running = FALSE
    /\ num_active_workers = 0

Start(sv, kind, g, src, dl, nt) ==
    LET nn == graph_size(g)
        H == CeilDiv(get_max_edge_weight(g), dl) + 5
        b0 == bucket_construct(bucket_advance(NewBucket(kind, nn)), 0, src)
    IN  [solver |-> sv, graph |-> g, source |-> src, delta |-> dl, num_threads |-> nt,
         dist |-> [v \in 0..(nn - 1) |-> IF v = src THEN 0 ELSE INF_MAX],
         position_in_bucket |-> [v \in 0..(nn - 1) |-> IF v = src THEN 0 ELSE 0 - 1],
         buckets |-> [i \in 0..(H - 1) |-> IF i = 0 THEN b0 ELSE NewBucket(kind, nn)],
         nodes_requested |-> [i \in 0..(nn - 1) |-> 0],
         request_map |-> [v \in 0..(nn - 1) |-> INF_MAX],
         prefix |-> [i \in 0..(nn - 1) |-> 0],
         thread_totals |-> [t \in 0..(nt - 1) |-> 0],
         tasks |-> [w \in 0..(nt - 1) |-> NoTask],
         ready |-> [w \in 0..(nt - 1) |-> FALSE],
         wpc |-> [w \in 0..(nt - 1) |-> "wait"],
         wl |-> [w \in 0..(nt - 1) |-> NoLocals],
         barrier |-> [count |-> nt + 1, phase |-> 0],
         arrived_phase |-> [p \in 0..nt |-> 0]]

Setup(sv, kind, g, src, dl, nt) ==
    LET s == Start(sv, kind, g, src, dl, nt)
    IN  /\ solver = s.solver
        /\ graph = s.graph
        /\ source = s.source
        /\ delta = s.delta
        /\ num_threads = s.num_threads
        /\ dist = s.dist
        /\ position_in_bucket = s.position_in_bucket
        /\ buckets = s.buckets
        /\ light_nodes_requested = s.nodes_requested
        /\ heavy_nodes_requested = s.nodes_requested
        /\ light_nodes_counter = 0
        /\ heavy_nodes_counter = 0
        /\ light_request_map = s.request_map
        /\ heavy_request_map = s.request_map
        /\ current_generation = 0
        /\ generations_without_bucket = 0
        /\ prefix = s.prefix
        /\ thread_totals = s.thread_totals
        /\ thread_pref = s.thread_totals
        /\ curr_ptr = 0
        /\ cpc = "for"
        /\ cl = NoCtrl
        /\ tasks = s.tasks
        /\ ready = s.ready
        /\ stopped = FALSE
        /\ wpc = s.wpc
        /\ wl = s.wl
        /\ barrier = s.barrier
        /\ arrived_phase = s.arrived_phase
        /\ ub = {}
        /\ hist = NoHist(graph_size(g), nt)
        /\ NoQueueState

Init ==
    \E sh \in Shapes : \E ws \in Weights(sh) :
        \E dl \in 1..MaxDelta : \E nt \in 1..MaxThreads :
            Setup(1, "cas", GraphCtor(sh.n, WeightedEdges(sh, ws)), sh.source, dl, nt)

\* a variant of ChunkOf that gives every thread one item
ChunkOfOne(total) == 1

\* a variant of ChunkOf that rounds down
ChunkFloor(total) == total \div num_threads

\* the share of one thread, rounded up: lines 149, 197, 220 (384, 416)
ChunkOf(total) == (total + num_threads - 1) \div num_threads

\* ------------------------------------------------------------- std::barrier
\* a variant of barrier_arrive for a barrier of num_threads participants
barrier_arrive_narrow(b) ==
    IF b.count = 1 THEN [count |-> num_threads, phase |-> 1 - b.phase]
    ELSE [b EXCEPT !.count = b.count - 1]

\* a variant of barrier_arrive for a barrier of num_threads + 2 participants
barrier_arrive_wide(b) ==
    IF b.count = 1 THEN [count |-> num_threads + 2, phase |-> 1 - b.phase]
    ELSE [b EXCEPT !.count = b.count - 1]

\* arrive: the last of the num_threads + 1 participants completes the phase
barrier_arrive(b) ==
    IF b.count = 1 THEN [count |-> num_threads + 1, phase |-> 1 - b.phase]
    ELSE [b EXCEPT !.count = b.count - 1]

\* ---------------------------------------------------- the controlling thread
\* a variant of DegSum that leaves out the entry at i itself (an exclusive sum)
RECURSIVE DegSumExclusive(_, _)
DegSumExclusive(b, i) ==
    IF i <= 0 THEN 0
    ELSE DegSumExclusive(b, i - 1) +
         (IF bucket_at(b, i - 1) >= 0 THEN adj_size(graph, bucket_at(b, i - 1)) ELSE 0)

\* inclusive prefix sum of the out-degrees of the bucket's live entries: lines 135-144
RECURSIVE DegSum(_, _)
DegSum(b, i) ==
    IF i < 0 THEN 0
    ELSE DegSum(b, i - 1) + (IF bucket_at(b, i) >= 0 THEN adj_size(graph, bucket_at(b, i)) ELSE 0)

\* a variant of horizon_passed that gives up at the first empty bucket
horizon_passed_early == generations_without_bucket >= 1

\* if (generations_without_bucket >= MAX_BUCKET_COUNT) break: lines 121-123
horizon_passed == generations_without_bucket >= MAX_BUCKET_COUNT

\* the for statement's condition and the wrap of current_generation: lines 120-126
CtrlFor ==
    /\ cpc = "for"
    /\ IF horizon_passed
       THEN /\ cpc' = IF solver = 1 THEN "stop" ELSE "destroy"
            /\ UNCHANGED current_generation
       ELSE /\ cpc' = "while"
            /\ current_generation' =
                   IF current_generation >= MAX_BUCKET_COUNT THEN 0 ELSE current_generation
    /\ UNCHANGED <<inputs, queued, dist, position_in_bucket, buckets, light_nodes_requested,
                   heavy_nodes_requested, light_nodes_counter, heavy_nodes_counter,
                   light_request_map, heavy_request_map, generations_without_bucket,
                   prefix, thread_totals, thread_pref, curr_ptr, cl, pool, ub, hist>>

\* a variant of work_found_count that leaves the counter as it is
work_found_count_kept == generations_without_bucket

\* generations_without_bucket = 0 in the body of the while loop: line 128 (377)
work_found_count == 0

\* while (!buckets[current_generation].empty()), sequential prefix: lines 127-149
CtrlWhileSeq ==
    /\ cpc = "while"
    /\ solver = 1
    /\ ~bucket_empty(buckets[current_generation])
    /\ LET b == buckets[current_generation]
           size == bucket_size(b)
           total == DegSum(b, size - 1)
       IN  /\ prefix' = [i \in V |-> IF i < size THEN DegSum(b, i) ELSE prefix[i]]
           /\ cl' = [NoCtrl EXCEPT !.phase = "A", !.curr_bucket_size = size,
                                   !.total_edges = total,
                                   !.edge_chunk = ChunkOf(total)]
    /\ generations_without_bucket' = work_found_count
    /\ cpc' = "push"
    /\ hist' = [hist EXCEPT !.found_empty = {}, !.examined = << >>]
    /\ UNCHANGED <<inputs, queued, dist, position_in_bucket, buckets, light_nodes_requested,
                   heavy_nodes_requested, light_nodes_counter, heavy_nodes_counter,
                   light_request_map, heavy_request_map, current_generation,
                   thread_totals, thread_pref, curr_ptr, pool, ub>>

\* the while loop is left; Loop 3 reads heavy_nodes_counter: lines 217-220
CtrlWhileExit ==
    /\ cpc = "while"
    /\ bucket_empty(buckets[current_generation])
    /\ cl' = [NoCtrl EXCEPT !.phase = "C", !.requests_size = heavy_nodes_counter,
                            !.chunk_size = ChunkOf(heavy_nodes_counter)]
    /\ cpc' = "push"
    /\ hist' = [hist EXCEPT !.found_empty = @ \cup {current_generation}]
    /\ UNCHANGED <<inputs, queued, algo, pool, ub>>

\* a variant of TaskFor whose Loop 1 ranges stop one edge early
TaskForShort(tid) ==
    IF cl.phase = "A"
    THEN [NoTask EXCEPT !.kind = "gen", !.a = tid * cl.edge_chunk,
                        !.b = Min(cl.total_edges, tid * cl.edge_chunk + cl.edge_chunk) - 1]
    ELSE [NoTask EXCEPT !.kind = "relax", !.heavy = (cl.phase = "C"),
                        !.a = tid * cl.chunk_size,
                        !.b = Min(tid * cl.chunk_size + cl.chunk_size, cl.requests_size)]

\* a variant of TaskFor whose Loop 2 and Loop 3 ranges stop one request early
TaskForFewer(tid) ==
    IF cl.phase = "A"
    THEN [NoTask EXCEPT !.kind = "gen", !.a = tid * cl.edge_chunk,
                        !.b = Min(cl.total_edges, tid * cl.edge_chunk + cl.edge_chunk)]
    ELSE [NoTask EXCEPT !.kind = "relax", !.heavy = (cl.phase = "C"),
                        !.a = tid * cl.chunk_size,
                        !.b = Min(tid * cl.chunk_size + cl.chunk_size, cl.requests_size) - 1]

\* a variant of TaskFor whose Loop 2 and Loop 3 ranges all start at request 0
TaskForOverlapping(tid) ==
    IF cl.phase = "A"
    THEN [NoTask EXCEPT !.kind = "gen", !.a = tid * cl.edge_chunk,
                        !.b = Min(cl.total_edges, tid * cl.edge_chunk + cl.edge_chunk)]
    ELSE [NoTask EXCEPT !.kind = "relax", !.heavy = (cl.phase = "C"),
                        !.a = 0,
                        !.b = Min(tid * cl.chunk_size + cl.chunk_size, cl.requests_size)]

\* the closure the controller hands to worker tid in the current phase
TaskFor(tid) ==
    IF cl.phase = "A"
    THEN [NoTask EXCEPT !.kind = "gen", !.a = tid * cl.edge_chunk,
                        !.b = Min(cl.total_edges, tid * cl.edge_chunk + cl.edge_chunk)]
    ELSE [NoTask EXCEPT !.kind = "relax", !.heavy = (cl.phase = "C"),
                        !.a = tid * cl.chunk_size,
                        !.b = Min(tid * cl.chunk_size + cl.chunk_size, cl.requests_size)]

\* a variant of pool_push that stores the task and leaves the ready flag alone
pool_push_unsignalled(tid, task) ==
    /\ tasks' = [tasks EXCEPT ![tid] = task]
    /\ ready' = ready
    /\ hist' = [hist EXCEPT !.submitted[tid] = Append(@, task)]

\* FixedTaskPool::push(tid, f): lines 51-60 of fixed_task_pool.h
pool_push(tid, task) ==
    /\ tasks' = [tasks EXCEPT ![tid] = task]
    /\ ready' = [ready EXCEPT ![tid] = TRUE]
    /\ hist' = [hist EXCEPT !.submitted[tid] = Append(@, task)]

\* one turn of a submission loop: lines 151-185, 198-210, 221-233
CtrlPush ==
    /\ cpc = "push"
    /\ cl.phase \in {"A", "B", "C"}
    /\ pool_push(cl.tid, TaskFor(cl.tid))
    /\ cl' = [cl EXCEPT !.tid = cl.tid + 1]
    /\ cpc' = IF cl.tid + 1 < num_threads THEN "push" ELSE "arrive"
    /\ UNCHANGED <<inputs, queued, algo, stopped, wpc, wl, barrier, arrived_phase, ub>>

\* a variant of Released for an arrive_and_wait that does not wait
ReleasedAtOnce(p) == TRUE

\* barrier.arrive_and_wait(), the arrival: lines 187, 211, 234
CtrlArrive ==
    /\ cpc = "arrive"
    /\ arrived_phase' = [arrived_phase EXCEPT ![Controller] = barrier.phase]
    /\ barrier' = barrier_arrive(barrier)
    /\ cpc' = "wait"
    /\ UNCHANGED <<inputs, queued, algo, cl, tasks, ready, stopped, wpc, wl, ub, hist>>

Released(p) == barrier.phase # arrived_phase[p]

\* the controller's arrive_and_wait() has returned: a new epoch of the pool
NewEpoch(h) ==
    [h EXCEPT !.submitted = [w \in Workers |-> << >>], !.ran = [w \in Workers |-> << >>]]

\* after Loop 1's barrier: curr_bucket.clear() and the set-up of Loop 2: lines 189-197
CtrlAfterA ==
    /\ cpc = "wait"
    /\ cl.phase = "A"
    /\ Released(Controller)
    /\ buckets' = [buckets EXCEPT ![current_generation] = bucket_clear(@)]
    /\ cl' = [NoCtrl EXCEPT !.phase = "B", !.requests_size = light_nodes_counter,
                            !.chunk_size = ChunkOf(light_nodes_counter)]
    /\ cpc' = "push"
    /\ hist' = NewEpoch(CountClear([hist EXCEPT !.phase_issued =
                                        [h \in BOOLEAN |-> [v \in V |-> INF_MAX]],
                                        !.relowered = {}],
                                    current_generation))
    /\ UNCHANGED <<inputs, queued, dist, position_in_bucket, light_nodes_requested,
                   heavy_nodes_requested, light_nodes_counter, heavy_nodes_counter,
                   light_request_map, heavy_request_map, current_generation,
                   generations_without_bucket, prefix, thread_totals, thread_pref,
                   curr_ptr, pool, ub>>

\* after Loop 2's barrier: light_nodes_counter = 0, back to the while condition: line 213
CtrlAfterB ==
    /\ cpc = "wait"
    /\ cl.phase = "B"
    /\ Released(Controller)
    /\ light_nodes_counter' = 0
    /\ cl' = NoCtrl
    /\ cpc' = "while"
    /\ hist' = NewEpoch([hist EXCEPT !.calls[FALSE] = [v \in V |-> 0], !.drains = {}, !.pushes = {}])
    /\ UNCHANGED <<inputs, queued, dist, position_in_bucket, buckets, light_nodes_requested,
                   heavy_nodes_requested, heavy_nodes_counter, light_request_map,
                   heavy_request_map, current_generation, generations_without_bucket,
                   prefix, thread_totals, thread_pref, curr_ptr, pool, ub>>

\* after Loop 3's barrier: heavy_nodes_counter = 0 and the for statement's increment
CtrlAfterC ==
    /\ cpc = "wait"
    /\ cl.phase = "C"
    /\ Released(Controller)
    /\ heavy_nodes_counter' = 0
    /\ current_generation' = current_generation + 1
    /\ generations_without_bucket' = generations_without_bucket + 1
    /\ cl' = NoCtrl
    /\ cpc' = "for"
    /\ hist' = NewEpoch([hist EXCEPT !.calls[TRUE] = [v \in V |-> 0], !.drains = {},
                                      !.pushes = {}, !.generation = @ + 1])
    /\ UNCHANGED <<inputs, queued, dist, position_in_bucket, buckets, light_nodes_requested,
                   heavy_nodes_requested, light_nodes_counter, light_request_map,
                   heavy_request_map, prefix, thread_totals, thread_pref, curr_ptr, pool, ub>>

\* FixedTaskPool::stop(), the first loop: a task returning false for every worker
CtrlStop ==
    /\ cpc = "stop"
    /\ pool_push(cl.tid, [NoTask EXCEPT !.kind = "stop"])
    /\ cl' = [cl EXCEPT !.tid = cl.tid + 1]
    /\ cpc' = IF cl.tid + 1 < num_threads THEN "stop" ELSE "join"
    /\ UNCHANGED <<inputs, queued, algo, stopped, wpc, wl, barrier, arrived_phase, ub>>

\* a variant of joined: the controller goes on without waiting for the thread
joined_detached(w) == TRUE

\* workers[i].join() returns once the thread of worker i has ended: lines 45, 71
joined(w) == wpc[w] = "exited"

\* FixedTaskPool::stop(), the joins; compute returns dist
CtrlJoin ==
    /\ cpc = "join"
    /\ \A w \in Workers : joined(w)
    /\ stopped' = TRUE
    /\ cpc' = "done"
    /\ UNCHANGED <<inputs, queued, algo, cl, tasks, ready, wpc, wl, barrier, arrived_phase, ub, hist>>


\* ------------------------------------------------------- the worker threads
\* std::upper_bound over prefix[lo, hi): the first index whose value exceeds val
upper_bound(lo, hi, val) ==
    IF \E i \in lo..(hi - 1) : prefix[i] > val
    THEN CHOOSE i \in lo..(hi - 1) :
             prefix[i] > val /\ \A j \in lo..(i - 1) : prefix[j] <= val
    ELSE hi

\* a variant of wants_request that also requests an edge that is tight
wants_request_or_tight(u, e) == dist[u] + e.w <= dist[e.v]

\* if (dist[u] + w < dist[v]): lines 171, 446
wants_request(u, e) == dist[u] + e.w < dist[e.v]

\* a variant of is_heavy that sends every edge to the heavy requests
is_heavy_always(w) == TRUE

\* if (w < delta) light else heavy: lines 172-176, 447-451
is_heavy(w) == ~(w < delta)

\* a variant of compare_exchange that writes whatever the cell holds
compare_exchange_blind(actual, expected) == TRUE

\* compare_exchange_weak(expected, desired) on a cell holding actual: the exchange
\* takes place iff the cell holds the expected value
compare_exchange(actual, expected) == actual = expected

\* a variant of won_install: every call that saw an empty slot on entry appends
won_install_always(curr_state) == TRUE

\* if (std::isinf(curr_state)) after the install loop: this call installed the
\* slot's first finite value and appends v to the index: line 101
won_install(curr_state) == isinf(curr_state)

\* a variant of lowers that keeps the larger of two requests
lowers_inverted(new_distance, current_distance) == new_distance > current_distance

\* while (new_distance < current_distance && !compare_exchange...): line 108
lowers(new_distance, current_distance) == new_distance < current_distance

\* a variant of drained_slot: a drain that reads the slot and leaves it as it is
drained_slot_kept(old) == old

\* requests[v].exchange(infinity): what the slot holds after the drain: line 77
drained_slot(old) == INF_MAX

\* a variant of relax_improves that also takes a request equal to dist[v]
relax_improves_or_equal(new_distance, v) == new_distance <= dist[v]

\* if (new_distance < dist[v]): line 80
relax_improves(new_distance, v) == new_distance < dist[v]

\* a variant of leaves_old_bucket that never writes a tombstone
leaves_old_bucket_never(old_bucket, new_bucket) == FALSE

\* the entry of v in its old bucket is overwritten by -1: line 84
leaves_old_bucket(old_bucket, new_bucket) ==
    old_bucket # 0 - 1 /\ old_bucket # current_generation /\ old_bucket # new_bucket

\* a variant of enters_new_bucket without the test that the bucket changed
enters_new_bucket_current_only(old_bucket, new_bucket) ==
    old_bucket = current_generation

\* a variant of enters_new_bucket without the test for the bucket being drained
enters_new_bucket_moved_only(old_bucket, new_bucket) ==
    old_bucket # new_bucket

\* a variant of enters_new_bucket that pushes only into a bucket not being drained
enters_new_bucket_later_only(old_bucket, new_bucket) ==
    old_bucket # new_bucket /\ new_bucket # current_generation

\* v is pushed into its new bucket: line 87
enters_new_bucket(old_bucket, new_bucket) ==
    old_bucket = current_generation \/ old_bucket # new_bucket

\* The walk of Loop 1's task from (node_idx, k, curr_edge) to the next edge that
\* passes dist[u] + w < dist[v], or to the end of the task: lines 165-183.
\* in_for: the walk stands at the for statement's condition, else at the while's.
RECURSIVE Scan(_, _, _, _, _)
Scan(end_e, ni, k, ce, in_for) ==
    LET b == buckets[current_generation]
    IN  IF ~in_for
        THEN IF ce < end_e /\ ni < cl.curr_bucket_size
             THEN IF bucket_at(b, ni) >= 0
                  THEN Scan(end_e, ni, k, ce, TRUE)
                  ELSE Scan(end_e, ni + 1, 0, ce, FALSE)
             ELSE [found |-> FALSE, node_idx |-> ni, k |-> k, curr_edge |-> ce]
        ELSE LET u == bucket_at(b, ni)
             IN  IF k < adj_size(graph, u) /\ ce < end_e
                 THEN LET e == graph.adj[u][k + 1]
                      IN  IF wants_request(u, e)
                          THEN [found |-> TRUE, node_idx |-> ni, k |-> k, curr_edge |-> ce]
                          ELSE Scan(end_e, ni, k + 1, ce + 1, TRUE)
                 ELSE Scan(end_e, ni + 1, 0, ce, FALSE)

\* the edges whose test dist[u] + w < dist[v] (line 171) the walk of Scan
\* evaluates, in the order of the walk
RECURSIVE Examined(_, _, _, _, _)
Examined(end_e, ni, k, ce, in_for) ==
    LET b == buckets[current_generation]
    IN  IF ~in_for
        THEN IF ce < end_e /\ ni < cl.curr_bucket_size
             THEN IF bucket_at(b, ni) >= 0
                  THEN Examined(end_e, ni, k, ce, TRUE)
                  ELSE Examined(end_e, ni + 1, 0, ce, FALSE)
             ELSE << >>
        ELSE LET u == bucket_at(b, ni)
             IN  IF k < adj_size(graph, u) /\ ce < end_e
                 THEN IF wants_request(u, graph.adj[u][k + 1])
                      THEN << <<ni, k>> >>
                      ELSE << <<ni, k>> >> \o Examined(end_e, ni, k + 1, ce + 1, TRUE)
                 ELSE Examined(end_e, ni + 1, 0, ce, FALSE)

\* the history with the edges of a walk counted as examined once more
RECURSIVE CountExamined(_, _)
CountExamined(h, walk) ==
    IF walk = << >> THEN h
    ELSE LET p == Head(walk)
             c == IF p \in DOMAIN h.examined THEN h.examined[p] ELSE 0
         IN  CountExamined([h EXCEPT !.examined = (p :> (c + 1)) @@ h.examined],
                           Tail(walk))

\* tasks[i]() is entered by worker w
TaskStarts(w) == hist' = [hist EXCEPT !.ran[w] = Append(@, tasks[w])]

\* the worker's own thread of control leaves its task: ready[i].store(false) is next
TaskReturns(w) ==
    /\ wpc' = [wpc EXCEPT ![w] = "reset"]
    /\ wl' = [wl EXCEPT ![w] = NoLocals]

\* ready[i].wait(false) returns and tasks[i]() is Loop 1's closure: lines 155-163
WorkerStartGen(w) ==
    /\ wpc[w] = "wait"
    /\ ready[w]
    /\ tasks[w].kind = "gen"
    /\ TaskStarts(w)
    /\ LET start_e == tasks[w].a
           end_e == tasks[w].b
           node_idx == upper_bound(0, cl.curr_bucket_size, start_e)
           edge_off == IF node_idx > 0 THEN SizeSub(start_e, prefix[node_idx - 1])
                       ELSE start_e
       IN  IF start_e >= end_e
           THEN TaskReturns(w)
           ELSE /\ wpc' = [wpc EXCEPT ![w] = "scan"]
                /\ wl' = [wl EXCEPT ![w] =
                             [NoLocals EXCEPT !.start_e = start_e, !.end_e = end_e,
                                              !.node_idx = node_idx, !.k = edge_off,
                                              !.curr_edge = start_e]]
    /\ UNCHANGED <<inputs, queued, algo, cpc, cl, tasks, ready, stopped, barrier, arrived_phase, ub>>

ReqMap(heavy) == IF heavy THEN heavy_request_map ELSE light_request_map

ReqCounter(heavy) == IF heavy THEN heavy_nodes_counter ELSE light_nodes_counter

ReqNodes(heavy) == IF heavy THEN heavy_nodes_requested ELSE light_nodes_requested

\* a variant of StoreReq whose write lands one below the distance it was given
StoreReqShort(heavy, v, d) ==
    /\ light_request_map' =
           IF heavy THEN light_request_map ELSE [light_request_map EXCEPT ![v] = d - 1]
    /\ heavy_request_map' =
           IF heavy THEN [heavy_request_map EXCEPT ![v] = d - 1] ELSE heavy_request_map

\* the request slots after an atomic write of d into the slot of v
StoreReq(heavy, v, d) ==
    /\ light_request_map' =
           IF heavy THEN light_request_map ELSE [light_request_map EXCEPT ![v] = d]
    /\ heavy_request_map' =
           IF heavy THEN [heavy_request_map EXCEPT ![v] = d] ELSE heavy_request_map

\* the walk to the next requesting edge, then add_request up to its first
\* state.load(): lines 165-178, 94-98
GenScan(w) ==
    /\ wpc[w] = "scan"
    /\ LET l == wl[w]
           r == Scan(l.end_e, l.node_idx, l.k, l.curr_edge, l.in_for)
           seen == CountExamined(hist, Examined(l.end_e, l.node_idx, l.k, l.curr_edge,
                                                l.in_for))
       IN  IF ~r.found
           THEN TaskReturns(w) /\ hist' = seen
           ELSE LET u == bucket_at(buckets[current_generation], r.node_idx)
                    e == graph.adj[u][r.k + 1]
                    heavy == is_heavy(e.w)
                IN  /\ wl' = [wl EXCEPT ![w] =
                                 [l EXCEPT !.node_idx = r.node_idx, !.k = r.k,
                                           !.curr_edge = r.curr_edge, !.in_for = TRUE,
                                           !.v = e.v, !.new_distance = dist[u] + e.w,
                                           !.heavy = heavy]]
                    /\ wpc' = [wpc EXCEPT ![w] =
                                  IF isinf(ReqMap(heavy)[e.v]) THEN "load2" ELSE "load3"]
                    /\ hist' = [seen EXCEPT
                           !.calls[heavy][e.v] = @ + 1,
                           !.phase_issued[heavy][e.v] = Min(@, dist[u] + e.w),
                           !.issued[heavy][e.v] = Min(@, dist[u] + e.w)]
    /\ UNCHANGED <<inputs, queued, algo, cpc, cl, tasks, ready, stopped, barrier, arrived_phase, ub>>

\* add_request returns; the for statement's ++k, ++curr_edge
NextEdge(w) ==
    /\ wpc' = [wpc EXCEPT ![w] = "scan"]
    /\ wl' = [wl EXCEPT ![w] = [wl[w] EXCEPT !.k = wl[w].k + 1,
                                             !.curr_edge = wl[w].curr_edge + 1]]
    /\ hist' = [hist EXCEPT
           !.completed[wl[w].heavy][wl[w].v] = Min(@, wl[w].new_distance)]

\* double curr_state = state.load(): line 99
ArLoad2(w) ==
    /\ wpc[w] = "load2"
    /\ LET cur == ReqMap(wl[w].heavy)[wl[w].v]
       IN  /\ wl' = [wl EXCEPT ![w] = [wl[w] EXCEPT !.curr_state = cur]]
           /\ wpc' = [wpc EXCEPT ![w] = IF isinf(cur) THEN "cas1"
                      ELSE IF won_install(cur) THEN "fetch" ELSE "load3"]
    /\ UNCHANGED <<inputs, queued, algo, cpc, cl, tasks, ready, stopped, barrier, arrived_phase, ub, hist>>

\* one compare_exchange of the install loop: lines 100-101
ArCas1(w) ==
    /\ wpc[w] = "cas1"
    /\ LET l == wl[w]
           cur == ReqMap(l.heavy)[l.v]
       IN  IF compare_exchange(cur, l.curr_state)
           THEN /\ StoreReq(l.heavy, l.v, l.new_distance)
                /\ wpc' = [wpc EXCEPT ![w] =
                              IF won_install(l.curr_state) THEN "fetch" ELSE "load3"]
                /\ wl' = wl
           ELSE /\ UNCHANGED <<light_request_map, heavy_request_map>>
                /\ wl' = [wl EXCEPT ![w] = [l EXCEPT !.curr_state = cur]]
                /\ wpc' = [wpc EXCEPT ![w] = IF isinf(cur) THEN "cas1"
                      ELSE IF won_install(cur) THEN "fetch" ELSE "load3"]
    /\ UNCHANGED <<inputs, queued, dist, position_in_bucket, buckets, light_nodes_requested,
                   heavy_nodes_requested, light_nodes_counter, heavy_nodes_counter,
                   current_generation, generations_without_bucket, prefix, thread_totals,
                   thread_pref, curr_ptr, cpc, cl, tasks, ready, stopped, barrier,
                   arrived_phase, ub, hist>>

\* size_t curr_idx = idx_counter.fetch_add(1): line 102
ArFetch(w) ==
    /\ wpc[w] = "fetch"
    /\ wl' = [wl EXCEPT ![w] = [wl[w] EXCEPT !.curr_idx = ReqCounter(wl[w].heavy)]]
    /\ light_nodes_counter' = light_nodes_counter + (IF wl[w].heavy THEN 0 ELSE 1)
    /\ heavy_nodes_counter' = heavy_nodes_counter + (IF wl[w].heavy THEN 1 ELSE 0)
    /\ wpc' = [wpc EXCEPT ![w] = "store"]
    /\ UNCHANGED <<inputs, queued, dist, position_in_bucket, buckets, light_nodes_requested,
                   heavy_nodes_requested, light_request_map, heavy_request_map,
                   current_generation, generations_without_bucket, prefix, thread_totals,
                   thread_pref, curr_ptr, cpc, cl, tasks, ready, stopped, barrier,
                   arrived_phase, ub, hist>>

\* requested_nodes[curr_idx] = request.v: line 103; the vector holds n entries
ArStore(w) ==
    /\ wpc[w] = "store"
    /\ LET l == wl[w]
       IN  IF l.curr_idx \in V
           THEN /\ light_nodes_requested' =
                       IF l.heavy THEN light_nodes_requested
                       ELSE [light_nodes_requested EXCEPT ![l.curr_idx] = l.v]
                /\ heavy_nodes_requested' =
                       IF l.heavy THEN [heavy_nodes_requested EXCEPT ![l.curr_idx] = l.v]
                       ELSE heavy_nodes_requested
                /\ ub' = ub
           ELSE /\ UNCHANGED <<light_nodes_requested, heavy_nodes_requested>>
                /\ ub' = ub \cup {"requested_nodes out of range"}
    /\ wpc' = [wpc EXCEPT ![w] = "load3"]
    /\ UNCHANGED <<inputs, queued, dist, position_in_bucket, buckets, light_nodes_counter,
                   heavy_nodes_counter, light_request_map, heavy_request_map,
                   current_generation, generations_without_bucket, prefix, thread_totals,
                   thread_pref, curr_ptr, cpc, cl, tasks, ready, stopped, wl, barrier,
                   arrived_phase, hist>>

\* double current_distance = state.load(), and the loop's first test: lines 107-108
ArLoad3(w) ==
    /\ wpc[w] = "load3"
    /\ LET l == wl[w]
           cur == ReqMap(l.heavy)[l.v]
       IN  IF lowers(l.new_distance, cur)
           THEN /\ wl' = [wl EXCEPT ![w] = [l EXCEPT !.curr_state = cur]]
                /\ wpc' = [wpc EXCEPT ![w] = "cas2"]
                /\ hist' = hist
           ELSE NextEdge(w)
    /\ UNCHANGED <<inputs, queued, algo, cpc, cl, tasks, ready, stopped, barrier, arrived_phase, ub>>

\* one compare_exchange of the lowering loop: line 108
ArCas2(w) ==
    /\ wpc[w] = "cas2"
    /\ LET l == wl[w]
           cur == ReqMap(l.heavy)[l.v]
       IN  IF compare_exchange(cur, l.curr_state)
           THEN /\ StoreReq(l.heavy, l.v, l.new_distance)
                /\ NextEdge(w)
           ELSE /\ UNCHANGED <<light_request_map, heavy_request_map>>
                /\ IF lowers(l.new_distance, cur)
                   THEN /\ wl' = [wl EXCEPT ![w] = [l EXCEPT !.curr_state = cur]]
                        /\ wpc' = wpc
                        /\ hist' = hist
                   ELSE NextEdge(w)
    /\ UNCHANGED <<inputs, queued, dist, position_in_bucket, buckets, light_nodes_requested,
                   heavy_nodes_requested, light_nodes_counter, heavy_nodes_counter,
                   current_generation, generations_without_bucket, prefix, thread_totals,
                   thread_pref, curr_ptr, cpc, cl, tasks, ready, stopped, barrier,
                   arrived_phase, ub>>


\* ready[i].wait(false) returns and tasks[i]() is Loop 2's or Loop 3's closure
WorkerStartRelax(w) ==
    /\ wpc[w] = "wait"
    /\ ready[w]
    /\ tasks[w].kind = "relax"
    /\ TaskStarts(w)
    /\ IF tasks[w].a < tasks[w].b
       THEN /\ wpc' = [wpc EXCEPT ![w] = "xchg"]
            /\ wl' = [wl EXCEPT ![w] = [NoLocals EXCEPT !.idx_r = tasks[w].a,
                                                        !.end = tasks[w].b,
                                                        !.heavy = tasks[w].heavy]]
       ELSE TaskReturns(w)
    /\ UNCHANGED <<inputs, queued, algo, cpc, cl, tasks, ready, stopped, barrier, arrived_phase, ub>>

\* relax returns; the for statement's ++idx_r: lines 205-208
NextRequest(w) ==
    IF wl[w].idx_r + 1 < wl[w].end
    THEN /\ wpc' = [wpc EXCEPT ![w] = "xchg"]
         /\ wl' = [wl EXCEPT ![w] = [NoLocals EXCEPT !.idx_r = wl[w].idx_r + 1,
                                                     !.end = wl[w].end,
                                                     !.heavy = wl[w].heavy]]
    ELSE TaskReturns(w)

\* relax(v, requests) up to the push: lines 76-87
RelaxXchg(w) ==
    /\ wpc[w] = "xchg"
    /\ LET l == wl[w]
           v == ReqNodes(l.heavy)[l.idx_r]
           new_distance == ReqMap(l.heavy)[v]
           old_bucket == get_bucket(dist[v])
           new_bucket == get_bucket(new_distance)
       IN  /\ StoreReq(l.heavy, v, drained_slot(new_distance))
           /\ hist' = [hist EXCEPT
                  !.issued[l.heavy][v] = INF_MAX,
                  !.completed[l.heavy][v] = INF_MAX,
                  !.drains = @ \cup {[w |-> w, heavy |-> l.heavy, v |-> v,
                                      got |-> new_distance,
                                      updated |-> relax_improves(new_distance, v)]},
                  !.relowered = IF ~l.heavy /\ relax_improves(new_distance, v)
                                   /\ new_bucket = current_generation
                                THEN @ \cup {v} ELSE @]
           /\ IF relax_improves(new_distance, v)
              THEN /\ dist' = [dist EXCEPT ![v] = new_distance]
                   /\ buckets' =
                          IF leaves_old_bucket(old_bucket, new_bucket)
                          THEN [buckets EXCEPT ![old_bucket] =
                                   bucket_set(@, position_in_bucket[v], 0 - 1)]
                          ELSE buckets
                   /\ IF enters_new_bucket(old_bucket, new_bucket)
                      THEN /\ wpc' = [wpc EXCEPT ![w] = "push_load"]
                           /\ wl' = [wl EXCEPT ![w] = [l EXCEPT !.v = v,
                                                                !.new_bucket = new_bucket]]
                      ELSE NextRequest(w)
              ELSE /\ UNCHANGED <<dist, buckets>>
                   /\ NextRequest(w)
    /\ UNCHANGED <<inputs, queued, position_in_bucket, light_nodes_requested, heavy_nodes_requested,
                   light_nodes_counter, heavy_nodes_counter, current_generation,
                   generations_without_bucket, prefix, thread_totals, thread_pref,
                   curr_ptr, cpc, cl, tasks, ready, stopped, barrier, arrived_phase, ub>>

\* CircularVector::push, size_t current_tail = tail.load(): line 169
PushLoad(w) ==
    /\ wpc[w] = "push_load"
    /\ buckets[wl[w].new_bucket].kind = "cas"
    /\ wl' = [wl EXCEPT ![w] = [wl[w] EXCEPT !.current_tail = buckets[wl[w].new_bucket].tail]]
    /\ wpc' = [wpc EXCEPT ![w] = "push_cas"]
    /\ UNCHANGED <<inputs, queued, algo, cpc, cl, tasks, ready, stopped, barrier, arrived_phase, ub, hist>>

\* CircularVector::push, one compare_exchange on tail: line 170
PushCas(w) ==
    /\ wpc[w] = "push_cas"
    /\ LET l == wl[w]
           b == buckets[l.new_bucket]
       IN  IF compare_exchange(b.tail, l.current_tail)
           THEN /\ buckets' = [buckets EXCEPT ![l.new_bucket] = bucket_advance(b)]
                /\ wpc' = [wpc EXCEPT ![w] = "push_write"]
                /\ wl' = wl
                /\ hist' = CountPush([hist EXCEPT !.pending[w] = b.tail], l.new_bucket)
           ELSE /\ buckets' = buckets
                /\ wl' = [wl EXCEPT ![w] = [l EXCEPT !.current_tail = b.tail]]
                /\ wpc' = wpc
                /\ hist' = hist
    /\ UNCHANGED <<inputs, queued, dist, position_in_bucket, light_nodes_requested,
                   heavy_nodes_requested, light_nodes_counter, heavy_nodes_counter,
                   light_request_map, heavy_request_map, current_generation,
                   generations_without_bucket, prefix, thread_totals, thread_pref,
                   curr_ptr, cpc, cl, tasks, ready, stopped, barrier, arrived_phase, ub>>

\* CircularVector::push of part_009, size_t current_tail = tail.fetch_add(1): line 201
PushFetchAdd(w) ==
    /\ wpc[w] = "push_load"
    /\ buckets[wl[w].new_bucket].kind = "faa"
    /\ LET l == wl[w]
           b == buckets[l.new_bucket]
       IN  /\ buckets' = [buckets EXCEPT ![l.new_bucket] = bucket_advance(b)]
           /\ wl' = [wl EXCEPT ![w] = [l EXCEPT !.current_tail = b.tail]]
           /\ hist' = CountPush([hist EXCEPT !.pending[w] = b.tail], l.new_bucket)
    /\ wpc' = [wpc EXCEPT ![w] = "push_write"]
    /\ UNCHANGED <<inputs, queued, dist, position_in_bucket, light_nodes_requested,
                   heavy_nodes_requested, light_nodes_counter, heavy_nodes_counter,
                   light_request_map, heavy_request_map, current_generation,
                   generations_without_bucket, prefix, thread_totals, thread_pref,
                   curr_ptr, cpc, cl, tasks, ready, stopped, barrier, arrived_phase, ub>>

\* CircularVector::push, the placement new and the return; position_in_bucket[v]
\* takes the returned index: lines 171-179 (202-203 of part_009) and line 88
PushWrite(w) ==
    /\ wpc[w] = "push_write"
    /\ LET l == wl[w]
           b == buckets[l.new_bucket]
       IN  /\ buckets' = [buckets EXCEPT ![l.new_bucket] =
                             bucket_construct(b, l.current_tail, l.v)]
           /\ position_in_bucket' =
                  [position_in_bucket EXCEPT ![l.v] = bucket_relative_idx(b, l.current_tail)]
           /\ hist' = [hist EXCEPT !.pushes = @ \cup
                  {[w |-> w, bucket |-> l.new_bucket, before |-> hist.pending[w],
                    returned |-> bucket_relative_idx(b, l.current_tail),
                    value |-> l.v]}]
    /\ NextRequest(w)
    /\ UNCHANGED <<inputs, queued, dist, light_nodes_requested, heavy_nodes_requested,
                   light_nodes_counter, heavy_nodes_counter, light_request_map,
                   heavy_request_map, current_generation, generations_without_bucket,
                   prefix, thread_totals, thread_pref, curr_ptr, cpc, cl, tasks, ready,
                   stopped, barrier, arrived_phase, ub>>

\* ready[i].wait(false) returns and tasks[i]() returns false: the thread ends
WorkerStop(w) ==
    /\ wpc[w] = "wait"
    /\ ready[w]
    /\ tasks[w].kind = "stop"
    /\ TaskStarts(w)
    /\ wpc' = [wpc EXCEPT ![w] = "exited"]
    /\ UNCHANGED <<inputs, queued, algo, cpc, cl, tasks, ready, stopped, wl, barrier,
                   arrived_phase, ub>>

\* ready[i].store(false): line 28 of fixed_task_pool.h
WorkerReset(w) ==
    /\ wpc[w] = "reset"
    /\ ready' = [ready EXCEPT ![w] = FALSE]
    /\ wpc' = [wpc EXCEPT ![w] = "arrive"]
    /\ UNCHANGED <<inputs, queued, algo, cpc, cl, tasks, stopped, wl, barrier, arrived_phase, ub, hist>>

\* barrier.arrive_and_wait(), the arrival: line 29
WorkerArrive(w) ==
    /\ wpc[w] = "arrive"
    /\ arrived_phase' = [arrived_phase EXCEPT ![w] = barrier.phase]
    /\ barrier' = barrier_arrive(barrier)
    /\ wpc' = [wpc EXCEPT ![w] = "leave"]
    /\ UNCHANGED <<inputs, queued, algo, cpc, cl, tasks, ready, stopped, wl, ub, hist>>

\* barrier.arrive_and_wait() returns; back to ready[i].wait(false)
WorkerLeave(w) ==
    /\ wpc[w] = "leave"
    /\ Released(w)
    /\ wpc' = [wpc EXCEPT ![w] = "wait"]
    /\ UNCHANGED <<inputs, queued, algo, cpc, cl, tasks, ready, stopped, wl, barrier,
                   arrived_phase, ub, hist>>

\* ------------------------------ CompletelyBalancedDeltaStepping2, Loop 1
\* while (!buckets[current_generation].empty()), parallel prefix: lines 376-384
CtrlWhilePar ==
    /\ cpc = "while"
    /\ solver = 2
    /\ ~bucket_empty(buckets[current_generation])
    /\ LET size == bucket_size(buckets[current_generation])
       IN  cl' = [NoCtrl EXCEPT !.phase = "P", !.curr_bucket_size = size,
                                !.nodes_per_thread = ChunkOf(size)]
    /\ generations_without_bucket' = work_found_count
    /\ cpc' = "push_prefix"
    /\ hist' = [hist EXCEPT !.found_empty = {}, !.examined = << >>]
    /\ UNCHANGED <<inputs, queued, dist, position_in_bucket, buckets, light_nodes_requested,
                   heavy_nodes_requested, light_nodes_counter, heavy_nodes_counter,
                   light_request_map, heavy_request_map, current_generation, prefix,
                   thread_totals, thread_pref, curr_ptr, pool, ub>>

\* (A) one turn of the loop that hands out the slices of the bucket: lines 387-401
CtrlPushPrefix ==
    /\ cpc = "push_prefix"
    /\ LET l == cl.tid * cl.nodes_per_thread
           r == Min(cl.curr_bucket_size, l + cl.nodes_per_thread)
       IN  pool_push(cl.tid, [NoTask EXCEPT !.kind = "prefix", !.a = l, !.b = r,
                                            !.c = cl.tid])
    /\ cl' = [cl EXCEPT !.tid = cl.tid + 1]
    /\ cpc' = IF cl.tid + 1 < num_threads THEN "push_prefix" ELSE "arrive"
    /\ UNCHANGED <<inputs, queued, algo, stopped, wpc, wl, barrier, arrived_phase, ub>>

\* running sum of the out-degrees of the slice [l, i]: lines 391-398
RECURSIVE SliceSum(_, _, _)
SliceSum(b, l, i) ==
    IF i < l THEN 0
    ELSE SliceSum(b, l, i - 1) + (IF bucket_at(b, i) >= 0 THEN adj_size(graph, bucket_at(b, i)) ELSE 0)

\* ready[i].wait(false) returns and tasks[i]() is the slice's prefix sum: lines 390-400
WorkerPrefix(w) ==
    /\ wpc[w] = "wait"
    /\ ready[w]
    /\ tasks[w].kind = "prefix"
    /\ TaskStarts(w)
    /\ LET l == tasks[w].a
           r == tasks[w].b
           b == buckets[current_generation]
       IN  /\ prefix' = [i \in V |-> IF l <= i /\ i < r THEN SliceSum(b, l, i) ELSE prefix[i]]
           /\ thread_totals' = [thread_totals EXCEPT ![tasks[w].c] = SliceSum(b, l, r - 1)]
    /\ TaskReturns(w)
    /\ UNCHANGED <<inputs, queued, dist, position_in_bucket, buckets, light_nodes_requested,
                   heavy_nodes_requested, light_nodes_counter, heavy_nodes_counter,
                   light_request_map, heavy_request_map, current_generation,
                   generations_without_bucket, thread_pref, curr_ptr, cpc, cl, tasks,
                   ready, stopped, barrier, arrived_phase, ub>>

\* the scan of thread_totals as the loop at lines 405-411 computes it
RECURSIVE TotalsScan(_)
TotalsScan(tid) == IF tid < 0 THEN 0 ELSE TotalsScan(tid - 1) + thread_totals[tid]

\* (B), (C): after the prefix pass's barrier: lines 402-417
CtrlAfterP ==
    /\ cpc = "wait"
    /\ cl.phase = "P"
    /\ Released(Controller)
    /\ thread_pref' = [tid \in Workers |-> TotalsScan(tid)]
    /\ LET total == TotalsScan(num_threads - 1)
       IN  cl' = [cl EXCEPT !.phase = "A", !.tid = 0, !.total_edges = total,
                            !.edge_chunk = ChunkOf(total)]
    /\ curr_ptr' = 0
    /\ cpc' = "push_gen"
    /\ hist' = NewEpoch(hist)
    /\ UNCHANGED <<inputs, queued, dist, position_in_bucket, buckets, light_nodes_requested,
                   heavy_nodes_requested, light_nodes_counter, heavy_nodes_counter,
                   light_request_map, heavy_request_map, current_generation,
                   generations_without_bucket, prefix, thread_totals, pool, ub>>

\* while (curr_ptr < num_threads && start_e >= thread_pref[curr_ptr]) ++curr_ptr
RECURSIVE AdvancePtr(_, _)
AdvancePtr(ptr, start_e) ==
    IF ptr < num_threads /\ start_e >= thread_pref[ptr]
    THEN AdvancePtr(ptr + 1, start_e)
    ELSE ptr

\* one turn of the loop that hands out the edge ranges: lines 419-460;
\* the closure takes start_e, end_e, start_e_batch by value and curr_ptr by reference
CtrlPushGen ==
    /\ cpc = "push_gen"
    /\ LET start_e == cl.tid * cl.edge_chunk
           end_e == Min(cl.total_edges, start_e + cl.edge_chunk)
           ptr == AdvancePtr(curr_ptr, start_e)
           start_e_batch == IF ptr > 0 THEN SizeSub(start_e, thread_pref[ptr - 1])
                            ELSE start_e
       IN  /\ curr_ptr' = ptr
           /\ pool_push(cl.tid, [NoTask EXCEPT !.kind = "gen2", !.a = start_e, !.b = end_e,
                                               !.c = start_e_batch])
    /\ cl' = [cl EXCEPT !.tid = cl.tid + 1]
    /\ cpc' = IF cl.tid + 1 < num_threads THEN "push_gen" ELSE "arrive"
    /\ UNCHANGED <<inputs, queued, dist, position_in_bucket, buckets, light_nodes_requested,
                   heavy_nodes_requested, light_nodes_counter, heavy_nodes_counter,
                   light_request_map, heavy_request_map, current_generation,
                   generations_without_bucket, prefix, thread_totals, thread_pref,
                   stopped, wpc, wl, barrier, arrived_phase, ub>>

\* ready[i].wait(false) returns and tasks[i]() is Loop 1's closure: lines 430-438;
\* curr_ptr is read through the reference, at the value it holds now
WorkerStartGen2(w) ==
    /\ wpc[w] = "wait"
    /\ ready[w]
    /\ tasks[w].kind = "gen2"
    /\ TaskStarts(w)
    /\ LET start_e == tasks[w].a
           end_e == tasks[w].b
           start_e_batch == tasks[w].c
           lo == curr_ptr * cl.nodes_per_thread
           hi == Min((curr_ptr + 1) * cl.nodes_per_thread, cl.curr_bucket_size)
           node_idx == upper_bound(lo, hi, start_e_batch)
           edge_off == IF node_idx > 0 THEN SizeSub(start_e_batch, prefix[node_idx - 1])
                       ELSE start_e_batch
       IN  IF start_e >= end_e
           THEN TaskReturns(w) /\ ub' = ub
           ELSE IF lo > hi
                THEN TaskReturns(w) /\ ub' = ub \cup {"upper_bound on a reversed range"}
                ELSE /\ wpc' = [wpc EXCEPT ![w] = "scan"]
                     /\ wl' = [wl EXCEPT ![w] =
                                  [NoLocals EXCEPT !.start_e = start_e, !.end_e = end_e,
                                                   !.node_idx = node_idx, !.k = edge_off,
                                                   !.curr_edge = start_e]]
                     /\ ub' = ub
    /\ UNCHANGED <<inputs, queued, algo, cpc, cl, tasks, ready, stopped, barrier, arrived_phase>>

\* ~FixedTaskPool with stopped = false, the first loop: lines 36-43
CtrlDtor ==
    /\ cpc = "destroy"
    /\ ~stopped
    /\ pool_push(cl.tid, [NoTask EXCEPT !.kind = "stop"])
    /\ cl' = [cl EXCEPT !.tid = cl.tid + 1]
    /\ cpc' = IF cl.tid + 1 < num_threads THEN "destroy" ELSE "destroy_join"
    /\ UNCHANGED <<inputs, queued, algo, stopped, wpc, wl, barrier, arrived_phase, ub>>

\* ~FixedTaskPool, the joins: lines 44-46; the caller holds the returned dist
CtrlDtorJoin ==
    /\ cpc = "destroy_join"
    /\ \A w \in Workers : joined(w)
    /\ cpc' = "done"
    /\ UNCHANGED <<inputs, queued, algo, cl, tasks, ready, stopped, wpc, wl, barrier,
                   arrived_phase, ub, hist>>

\* ----------------------------------------------------------- specifications
Next ==
    \/ CtrlFor
    \/ CtrlWhileSeq
    \/ CtrlWhileExit
    \/ CtrlPush
    \/ CtrlArrive
    \/ CtrlAfterA
    \/ CtrlAfterB
    \/ CtrlAfterC
    \/ CtrlStop
    \/ CtrlJoin
    \/ \E w \in Workers : WorkerStartGen(w)
    \/ \E w \in Workers : GenScan(w)
    \/ \E w \in Workers : ArLoad2(w)
    \/ \E w \in Workers : ArCas1(w)
    \/ \E w \in Workers : ArFetch(w)
    \/ \E w \in Workers : ArStore(w)
    \/ \E w \in Workers : ArLoad3(w)
    \/ \E w \in Workers : ArCas2(w)
    \/ \E w \in Workers : WorkerStartRelax(w)
    \/ \E w \in Workers : RelaxXchg(w)
    \/ \E w \in Workers : PushLoad(w)
    \/ \E w \in Workers : PushCas(w)
    \/ \E w \in Workers : PushWrite(w)
    \/ \E w \in Workers : WorkerStop(w)
    \/ \E w \in Workers : WorkerReset(w)
    \/ \E w \in Workers : WorkerArrive(w)
    \/ \E w \in Workers : WorkerLeave(w)

Spec == Init /\ [][Next]_vars

Init2 ==
    \E sh \in Shapes2 : \E ws \in Weights(sh) :
        \E dl \in 1..MaxDelta : \E nt \in 1..MaxThreads :
            Setup(2, "cas", GraphCtor(sh.n, WeightedEdges(sh, ws)), sh.source, dl, nt)

Next2 ==
    \/ CtrlFor
    \/ CtrlWhilePar
    \/ CtrlWhileExit
    \/ CtrlPushPrefix
    \/ CtrlAfterP
    \/ CtrlPushGen
    \/ CtrlPush
    \/ CtrlArrive
    \/ CtrlAfterA
    \/ CtrlAfterB
    \/ CtrlAfterC
    \/ CtrlDtor
    \/ CtrlDtorJoin
    \/ \E w \in Workers : WorkerPrefix(w)
    \/ \E w \in Workers : WorkerStartGen2(w)
    \/ \E w \in Workers : GenScan(w)
    \/ \E w \in Workers : ArLoad2(w)
    \/ \E w \in Workers : ArCas1(w)
    \/ \E w \in Workers : ArFetch(w)
    \/ \E w \in Workers : ArStore(w)
    \/ \E w \in Workers : ArLoad3(w)
    \/ \E w \in Workers : ArCas2(w)
    \/ \E w \in Workers : WorkerStartRelax(w)
    \/ \E w \in Workers : RelaxXchg(w)
    \/ \E w \in Workers : PushLoad(w)
    \/ \E w \in Workers : PushCas(w)
    \/ \E w \in Workers : PushWrite(w)
    \/ \E w \in Workers : WorkerStop(w)
    \/ \E w \in Workers : WorkerReset(w)
    \/ \E w \in Workers : WorkerArrive(w)
    \/ \E w \in Workers : WorkerLeave(w)

Spec2 == Init2 /\ [][Next2]_vars

\* ------------------------------- compute on graphs that outrun the horizon
\* a path of six vertices with a doubled first edge; every edge weighs
\* MaxW - 1 or MaxW and the last two weigh MaxW, so the far vertices lie beyond
\* bucket MAX_BUCKET_COUNT - 1
ShapesWrap ==
    { [n |-> 6, source |-> 0,
       edges |-> << <<0, 1>>, <<0, 1>>, <<1, 2>>, <<2, 3>>, <<3, 4>>, <<4, 5>> >>] }

WeightsWrap(shape) ==
    {ws \in [1..Len(shape.edges) -> (MaxW - 1)..MaxW] :
        ws[Len(shape.edges) - 1] = MaxW /\ ws[Len(shape.edges)] = MaxW}

InitWrap ==
    \E sh \in ShapesWrap : \E ws \in WeightsWrap(sh) :
        \E dl \in 1..MaxDelta : \E nt \in 1..MaxThreads :
            Setup(1, "cas", GraphCtor(sh.n, WeightedEdges(sh, ws)), sh.source, dl, nt)

SpecWrap == InitWrap /\ [][Next]_vars

\* ------------------------------------------ compute under fair scheduling
\* graphs with a self-loop on the source, a cycle, parallel edges, a self-loop
\* at the end of an edge
ShapesLive ==
    { [n |-> 1, source |-> 0, edges |-> << <<0, 0>> >>],
      [n |-> 2, source |-> 1, edges |-> << <<1, 0>>, <<0, 1>> >>],
      [n |-> 2, source |-> 0, edges |-> << <<0, 1>>, <<0, 1>> >>],
      [n |-> 2, source |-> 0, edges |-> << <<0, 1>>, <<1, 1>> >>] }

InitLive ==
    \E sh \in ShapesLive : \E ws \in Weights(sh) :
        \E dl \in 1..MaxDelta : \E nt \in 1..MaxThreads :
            Setup(1, "cas", GraphCtor(sh.n, WeightedEdges(sh, ws)), sh.source, dl, nt)

\* some thread that can take a step eventually takes one
SpecLive == InitLive /\ [][Next]_vars /\ WF_vars(Next)

\* --------------------------------------------- two calls of compute in a row
ShapesRerun ==
    { [n |-> 2, source |-> 0, edges |-> << <<0, 1>>, <<0, 1>> >>],
      [n |-> 2, source |-> 1, edges |-> << <<1, 0>> >>] }

InitRerun ==
    \E sh \in ShapesRerun : \E ws \in Weights(sh) :
        \E dl \in 1..MaxDelta : \E nt \in 1..MaxThreads :
            Setup(1, "cas", GraphCtor(sh.n, WeightedEdges(sh, ws)), sh.source, dl, nt)

\* the caller keeps the returned vector and calls compute again on the same graph
\* and source, with a solver of any delta and any number of threads:
\* test_graph_parallel in the loops of run_parallel_correctness_tests
Rerun ==
    /\ cpc = "done"
    /\ hist.run = 1
    /\ \E dl \in 1..MaxDelta : \E nt \in 1..MaxThreads :
           LET s == Start(solver, "cas", graph, source, dl, nt)
           IN  /\ delta' = dl
               /\ num_threads' = nt
               /\ dist' = s.dist
               /\ position_in_bucket' = s.position_in_bucket
               /\ buckets' = s.buckets
               /\ light_nodes_requested' = s.nodes_requested
               /\ heavy_nodes_requested' = s.nodes_requested
               /\ light_nodes_counter' = 0
               /\ heavy_nodes_counter' = 0
               /\ light_request_map' = s.request_map
               /\ heavy_request_map' = s.request_map
               /\ current_generation' = 0
               /\ generations_without_bucket' = 0
               /\ prefix' = s.prefix
               /\ thread_totals' = s.thread_totals
               /\ thread_pref' = s.thread_totals
               /\ curr_ptr' = 0
               /\ cpc' = "for"
               /\ cl' = NoCtrl
               /\ tasks' = s.tasks
               /\ ready' = s.ready
               /\ stopped' = FALSE
               /\ wpc' = s.wpc
               /\ wl' = s.wl
               /\ barrier' = s.barrier
               /\ arrived_phase' = s.arrived_phase
               /\ ub' = {}
               /\ hist' = [NoHist(n, nt) EXCEPT !.run = 2, !.first = dist,
                                                !.first_delta = delta,
                                                !.first_threads = num_threads]
    /\ UNCHANGED <<solver, graph, source, queued>>

NextRerun == Next \/ Rerun

SpecRerun == InitRerun /\ [][NextRerun]_vars

\* --------------------------------- compute called with arguments of any kind
\* The state compute is entered in: nothing is allocated, no worker exists. The
\* source ranges over -1..n, delta over 0..MaxDelta and num_threads over
\* 0..MaxThreads, so each argument is once just outside what the solver assumes.
InitEntry ==
    \E sh \in ShapesLive : \E ws \in Weights(sh) :
        \E sv \in {1, 2} : \E src \in (0 - 1)..sh.n :
            \E dl \in 0..MaxDelta : \E nt \in 0..MaxThreads :
                /\ solver = sv
                /\ graph = GraphCtor(sh.n, WeightedEdges(sh, ws))
                /\ source = src
                /\ delta = dl
                /\ num_threads = nt
                /\ dist = << >>
                /\ position_in_bucket = << >>
                /\ buckets = << >>
                /\ light_nodes_requested = << >>
                /\ heavy_nodes_requested = << >>
                /\ light_nodes_counter = 0
                /\ heavy_nodes_counter = 0
                /\ light_request_map = << >>
                /\ heavy_request_map = << >>
                /\ current_generation = 0
                /\ generations_without_bucket = 0
                /\ prefix = << >>
                /\ thread_totals = << >>
                /\ thread_pref = << >>
                /\ curr_ptr = 0
                /\ cpc = "entry"
                /\ cl = NoCtrl
                /\ tasks = << >>
                /\ ready = << >>
                /\ stopped = FALSE
                /\ wpc = << >>
                /\ wl = << >>
                /\ barrier = [count |-> 0, phase |-> 0]
                /\ arrived_phase = << >>
                /\ ub = {}
                /\ hist = NoHist(sh.n, nt)
                /\ NoQueueState

\* what a step with undefined behaviour leaves behind: the process has been
\* ended by a signal, or it goes on in a state the language does not define
UndefinedOutcomes == {"crashed", "undefined"}

\* std::vector<double> dist(n, INF_MAX) and adj_sizes: lines 31-38 (280-287);
\* no argument has been looked at yet
CtrlAllocate ==
    /\ cpc = "entry"
    /\ dist' = [v \in V |-> INF_MAX]
    /\ cpc' = "horizon"
    /\ UNCHANGED <<inputs, queued, position_in_bucket, buckets, light_nodes_requested,
                   heavy_nodes_requested, light_nodes_counter, heavy_nodes_counter,
                   light_request_map, heavy_request_map, current_generation,
                   generations_without_bucket, prefix, thread_totals, thread_pref,
                   curr_ptr, cl, pool, ub, hist>>

\* MAX_BUCKET_COUNT, position_in_bucket and the buckets: lines 40-48 (289-297).
\* With delta = 0 the quotient is infinite or not a number, and its conversion
\* to int is undefined.
CtrlHorizon ==
    /\ cpc = "horizon"
    /\ IF delta = 0
       THEN /\ ub' = ub \cup {"conversion of a non-finite double to int"}
            /\ cpc' \in UndefinedOutcomes
            /\ UNCHANGED <<position_in_bucket, buckets>>
       ELSE /\ position_in_bucket' = [v \in V |-> 0 - 1]
            /\ buckets' = [i \in 0..(MAX_BUCKET_COUNT - 1) |-> NewBucket("cas", n)]
            /\ cpc' = "place"
            /\ ub' = ub
    /\ UNCHANGED <<inputs, queued, dist, light_nodes_requested, heavy_nodes_requested,
                   light_nodes_counter, heavy_nodes_counter, light_request_map,
                   heavy_request_map, current_generation, generations_without_bucket,
                   prefix, thread_totals, thread_pref, curr_ptr, cl, pool, hist>>

\* buckets[0].push(source), position_in_bucket[source] = 0, dist[source] = 0 and
\* the request arrays: lines 50-67 (299-316). With the source outside [0, n) the
\* two assignments write outside their vectors.
CtrlPlace ==
    /\ cpc = "place"
    /\ IF source \notin V
       THEN /\ ub' = ub \cup {"position_in_bucket[source] out of range"}
            /\ cpc' \in UndefinedOutcomes
            /\ UNCHANGED <<dist, position_in_bucket, buckets, light_nodes_requested,
                           heavy_nodes_requested, light_request_map, heavy_request_map>>
       ELSE /\ buckets' = [buckets EXCEPT
                              ![0] = bucket_construct(bucket_advance(@), 0, source)]
            /\ position_in_bucket' = [position_in_bucket EXCEPT ![source] = 0]
            /\ dist' = [dist EXCEPT ![source] = 0]
            /\ light_nodes_requested' = [i \in V |-> 0]
            /\ heavy_nodes_requested' = [i \in V |-> 0]
            /\ light_request_map' = [v \in V |-> INF_MAX]
            /\ heavy_request_map' = [v \in V |-> INF_MAX]
            /\ cpc' = "pool"
            /\ ub' = ub
    /\ UNCHANGED <<inputs, queued, light_nodes_counter, heavy_nodes_counter, current_generation,
                   generations_without_bucket, prefix, thread_totals, thread_pref,
                   curr_ptr, cl, pool, hist>>

\* std::barrier<> barrier(num_threads + 1), FixedTaskPool pool(num_threads,
\* barrier) and the prefix arrays: lines 112-117 (361-366); the workers start.
\* With num_threads = 0 the barrier has one participant and the pool no worker.
CtrlStartPool ==
    /\ cpc = "pool"
    /\ prefix' = [i \in V |-> 0]
    /\ thread_totals' = [t \in 0..(num_threads - 1) |-> 0]
    /\ thread_pref' = [t \in 0..(num_threads - 1) |-> 0]
    /\ tasks' = [w \in 0..(num_threads - 1) |-> NoTask]
    /\ ready' = [w \in 0..(num_threads - 1) |-> FALSE]
    /\ wpc' = [w \in 0..(num_threads - 1) |-> "wait"]
    /\ wl' = [w \in 0..(num_threads - 1) |-> NoLocals]
    /\ barrier' = [count |-> num_threads + 1, phase |-> 0]
    /\ arrived_phase' = [q \in 0..num_threads |-> 0]
    /\ cpc' = "for"
    /\ UNCHANGED <<inputs, queued, dist, position_in_bucket, buckets, light_nodes_requested,
                   heavy_nodes_requested, light_nodes_counter, heavy_nodes_counter,
                   light_request_map, heavy_request_map, current_generation,
                   generations_without_bucket, curr_ptr, cl, stopped, ub, hist>>

NextEntry ==
    \/ CtrlAllocate
    \/ CtrlHorizon
    \/ CtrlPlace
    \/ CtrlStartPool

SpecEntry == InitEntry /\ [][NextEntry]_vars

\* ----------------------------------------- DeltaSteppingSequential::compute
\* solver 3 is DeltaSteppingSequential of delta_stepping_sequential.h. It runs on
\* the calling thread alone: dist, a growing vector of buckets (each an
\* unordered_set of vertices) and the locals of compute in cl.

\* the state of the variables a solver without FixedTaskPool never touches
NoPoolState(nn) ==
    /\ position_in_bucket = << >>
    /\ light_nodes_requested = << >>
    /\ heavy_nodes_requested = << >>
    /\ light_nodes_counter = 0
    /\ heavy_nodes_counter = 0
    /\ light_request_map = << >>
    /\ heavy_request_map = << >>
    /\ current_generation = 0
    /\ generations_without_bucket = 0
    /\ prefix = << >>
    /\ thread_totals = << >>
    /\ thread_pref = << >>
    /\ curr_ptr = 0
    /\ tasks = << >>
    /\ ready = << >>
    /\ stopped = FALSE
    /\ barrier = [count |-> 0, phase |-> 0]
    /\ arrived_phase = << >>
    /\ ub = {}
    /\ hist = NoHist(nn, 0)

no_pool_state ==
    <<position_in_bucket, light_nodes_requested, heavy_nodes_requested,
      light_nodes_counter, heavy_nodes_counter, light_request_map, heavy_request_map,
      current_generation, generations_without_bucket, prefix, thread_totals,
      thread_pref, curr_ptr, tasks, ready, stopped, barrier, arrived_phase, ub, hist>>

\* the orders in which a range-for can meet the elements of an unordered_set
Orders(S) ==
    {s \in [1..Cardinality(S) -> S] : \A a, b \in 1..Cardinality(S) : a # b => s[a] # s[b]}

\* light[u]: the edges of graph[u] with w < delta, in the order of graph[u]
\* (lines 17-27)
light_edges(u) == SelectSeq(graph.adj[u], LAMBDA e : e.w < delta)

heavy_edges_above(u) == SelectSeq(graph.adj[u], LAMBDA e : e.w > delta)

\* heavy[u]: the other edges of graph[u] (lines 23-25)
heavy_edges(u) == SelectSeq(graph.adj[u], LAMBDA e : ~(e.w < delta))

\* get_bucket of lines 34-39: no modulo, the vector of buckets grows instead
seq_get_bucket(d) == IF d = INF_MAX THEN 0 - 1 ELSE d \div delta

\* buckets.size()
seq_size(b) == Cardinality(DOMAIN b)

\* buckets.resize(k) for k > buckets.size(): the new buckets are empty
seq_resize(b, k) == [j \in 0..(k - 1) |-> IF j \in DOMAIN b THEN b[j] ELSE {}]

\* the buckets after the erase, resize and insert of lines 46-52
seq_move(b, v, old_bucket, new_bucket) ==
    LET erased == IF old_bucket >= 0 THEN [b EXCEPT ![old_bucket] = @ \ {v}] ELSE b
        grown == IF new_bucket >= seq_size(erased)
                 THEN seq_resize(erased, new_bucket + 1) ELSE erased
    IN  [grown EXCEPT ![new_bucket] = @ \cup {v}]

\* relax(u, v, w) of lines 41-54, as the next state of dist and buckets
SeqRelax(u, e) ==
    IF dist[u] + e.w < dist[e.v]
    THEN /\ dist' = [dist EXCEPT ![e.v] = dist[u] + e.w]
         /\ buckets' = seq_move(buckets, e.v, seq_get_bucket(dist[e.v]),
                                seq_get_bucket(dist[u] + e.w))
    ELSE UNCHANGED <<dist, buckets>>

NoSeqLocals == [i |-> 0, S |-> {}, curr_bucket |-> << >>, idx |-> 1, k |-> 1]

\* compute up to line 55
InitSeq ==
    \E sh \in Shapes : \E ws \in Weights(sh) : \E dl \in 1..MaxDelta :
        /\ solver = 3
        /\ graph = GraphCtor(sh.n, WeightedEdges(sh, ws))
        /\ source = sh.source
        /\ delta = dl
        /\ num_threads = 0
        /\ dist = [v \in 0..(sh.n - 1) |-> IF v = sh.source THEN 0 ELSE INF_MAX]
        /\ buckets = (0 :> {sh.source})
        /\ cpc = "seq_for"
        /\ cl = NoSeqLocals
        /\ wpc = << >>
        /\ wl = << >>
        /\ NoPoolState(sh.n)
        /\ NoQueueState

\* for (int i = 0; i < buckets.size(); ++i) { std::unordered_set<int> S; and
\* return dist: lines 56-57, 77
SeqFor ==
    /\ cpc = "seq_for"
    /\ IF cl.i < seq_size(buckets)
       THEN cpc' = "seq_while" /\ cl' = [cl EXCEPT !.S = {}]
       ELSE cpc' = "done" /\ cl' = cl
    /\ UNCHANGED <<inputs, queued, dist, buckets, wpc, wl, no_pool_state>>

\* while (!buckets[i].empty()) with the copy and the clear of lines 58-60, or
\* the start of the loop over S at line 69
SeqWhile ==
    /\ cpc = "seq_while"
    /\ IF buckets[cl.i] # {}
       THEN /\ \E order \in Orders(buckets[cl.i]) :
                   cl' = [cl EXCEPT !.curr_bucket = order, !.idx = 1, !.k = 1]
            /\ buckets' = [buckets EXCEPT ![cl.i] = {}]
            /\ cpc' = "seq_light"
       ELSE /\ \E order \in Orders(cl.S) :
                   cl' = [cl EXCEPT !.curr_bucket = order, !.idx = 1, !.k = 1]
            /\ buckets' = buckets
            /\ cpc' = "seq_heavy"
    /\ UNCHANGED <<inputs, queued, dist, wpc, wl, no_pool_state>>

\* one turn of the loops of lines 62-67: relax over the next light edge of
\* curr_bucket[idx], or S.insert(u) and the next vertex, or back to the while
SeqLight ==
    /\ cpc = "seq_light"
    /\ IF cl.idx > Len(cl.curr_bucket)
       THEN cpc' = "seq_while" /\ cl' = cl /\ UNCHANGED <<dist, buckets>>
       ELSE LET u == cl.curr_bucket[cl.idx]
            IN  IF cl.k > Len(light_edges(u))
                THEN /\ cl' = [cl EXCEPT !.S = @ \cup {u}, !.idx = @ + 1, !.k = 1]
                     /\ cpc' = cpc
                     /\ UNCHANGED <<dist, buckets>>
                ELSE /\ SeqRelax(u, light_edges(u)[cl.k])
                     /\ cl' = [cl EXCEPT !.k = @ + 1]
                     /\ cpc' = cpc
    /\ UNCHANGED <<inputs, queued, wpc, wl, no_pool_state>>

\* one turn of the loops of lines 69-75: relax over the next heavy edge of the
\* next vertex of S, or S.clear() and ++i
SeqHeavy ==
    /\ cpc = "seq_heavy"
    /\ IF cl.idx > Len(cl.curr_bucket)
       THEN /\ cl' = [cl EXCEPT !.S = {}, !.i = @ + 1, !.curr_bucket = << >>,
                                !.idx = 1, !.k = 1]
            /\ cpc' = "seq_for"
            /\ UNCHANGED <<dist, buckets>>
       ELSE LET u == cl.curr_bucket[cl.idx]
            IN  IF cl.k > Len(heavy_edges(u))
                THEN /\ cl' = [cl EXCEPT !.idx = @ + 1, !.k = 1]
                     /\ cpc' = cpc
                     /\ UNCHANGED <<dist, buckets>>
                ELSE /\ SeqRelax(u, heavy_edges(u)[cl.k])
                     /\ cl' = [cl EXCEPT !.k = @ + 1]
                     /\ cpc' = cpc
    /\ UNCHANGED <<inputs, queued, wpc, wl, no_pool_state>>

NextSeq ==
    \/ SeqFor
    \/ SeqWhile
    \/ SeqLight
    \/ SeqHeavy

SpecSeq == InitSeq /\ [][NextSeq]_vars

\* -------------------------------------------- DeltaSteppingParallel::compute
\* solver 4 is the queue-backed DeltaSteppingParallel of delta_stepping_parallel.h
\* with its FlexiblePool. A bucket is a FineGrainedDLL, held here as its head
\* pointer; nodes holds the next and prev pointers of the node of each vertex
\* (idx_to_addr). The queue of the pool is a blocking first-in first-out queue
\* with the interface of CoarseGrainedUnboundedQueue: pop waits for an element.

nullptr == 0 - 1

NewNode == [next |-> nullptr, prev |-> nullptr]

\* FineGrainedDLL::insert: the new state of the nodes and of the head
dll_insert(nd, head, node) ==
    LET linked == IF head # nullptr
                  THEN [nd EXCEPT ![node].next = head, ![head].prev = node]
                  ELSE nd
    IN  [nodes |-> [linked EXCEPT ![node].prev = nullptr], head |-> node]

\* FineGrainedDLL::remove, statement by statement
dll_remove(nd, head, node) ==
    LET n1 == IF nd[node].prev # nullptr
              THEN [nd EXCEPT ![nd[node].prev].next = nd[node].next] ELSE nd
        n2 == IF n1[node].next # nullptr
              THEN [n1 EXCEPT ![n1[node].next].prev = n1[node].prev] ELSE n1
        h2 == IF node = head THEN n2[node].next ELSE head
    IN  [nodes |-> [n2 EXCEPT ![node] = NewNode], head |-> h2]

\* FineGrainedDLL::list_all_and_clear: head first, each node removed in turn
RECURSIVE list_all_and_clear(_, _, _)
list_all_and_clear(nd, head, res) ==
    IF head = nullptr THEN [nodes |-> nd, head |-> head, res |-> res]
    ELSE LET r == dll_remove(nd, head, head)
         IN  list_all_and_clear(r.nodes, r.head, Append(res, head))

\* the vertices a list holds, following next from the head
RECURSIVE dll_members(_, _, _)
dll_members(nd, head, fuel) ==
    IF head = nullptr \/ fuel = 0 THEN {}
    ELSE {head} \cup dll_members(nd, nd[head].next, fuel - 1)

\* buckets.resize(desired): the lists are moved, the new ones are empty
q_resize(b, desired) ==
    [j \in 0..(desired - 1) |-> IF j \in DOMAIN b THEN b[j] ELSE nullptr]

\* int desired = new_bucket << 1
q_desired(new_bucket) == new_bucket * 2

\* the part of relax under lock_ngu, lines 101-113: the node of v leaves the
\* list of old_bucket and enters the list of new_bucket
q_move(v, old_bucket, new_bucket) ==
    LET r1 == IF old_bucket >= 0
              THEN dll_remove(nodes, buckets[old_bucket], v)
              ELSE [nodes |-> nodes, head |-> nullptr]
        b1 == IF old_bucket >= 0 THEN [buckets EXCEPT ![old_bucket] = r1.head]
              ELSE buckets
        grow == new_bucket >= max_bucket_size
        b2 == IF grow THEN q_resize(b1, q_desired(new_bucket)) ELSE b1
        r2 == dll_insert(r1.nodes, b2[new_bucket], v)
    IN  /\ nodes' = r2.nodes
        /\ buckets' = [b2 EXCEPT ![new_bucket] = r2.head]
        /\ max_bucket_size' = IF grow THEN q_desired(new_bucket) ELSE max_bucket_size

\* positions.count(request.v)
q_count(positions, v) == v \in DOMAIN positions

q_worse(request, existing) ==
    dist[request.u] + request.w > dist[existing.u] + existing.w

\* add_request's test of line 127
q_better(request, existing) ==
    dist[request.u] + request.w < dist[existing.u] + existing.w

\* add_request of lines 118-131, under its mutex: the requests and positions after
add_request(requests, positions, request) ==
    IF ~q_count(positions, request.v)
    THEN [requests |-> Append(requests, request),
          positions |-> (request.v :> Len(requests)) @@ positions]
    ELSE LET idx == positions[request.v]
         IN  [requests |-> IF q_better(request, requests[idx + 1])
                           THEN [requests EXCEPT ![idx + 1] = request]
                           ELSE requests,
              positions |-> positions]

QTask(kind, start, end) == [kind |-> kind, start |-> start, end |-> end]

NoQLocals ==
    [task |-> QTask("none", 0, 0), idx |-> 0, k |-> 1, sum |-> 0, old_bucket |-> 0,
     new_bucket |-> 0]

NoQCtrl ==
    [i |-> 0, phase |-> "-", curr_bucket |-> << >>, size |-> 0, chunk_size |-> 0,
     idx |-> 0]

\* the graphs the queue-backed solver is run on; in the last one vertex 2 can
\* be the target of one light request and the origin of another in one phase
ShapesQueued ==
    { [n |-> 1, source |-> 0, edges |-> << <<0, 0>> >>],
      [n |-> 2, source |-> 1, edges |-> << <<1, 0>>, <<0, 1>> >>],
      [n |-> 2, source |-> 0, edges |-> << <<0, 1>>, <<0, 1>> >>],
      [n |-> 4, source |-> 0,
       edges |-> << <<0, 1>>, <<0, 2>>, <<1, 2>>, <<2, 3>> >>] }

\* every weighting of the small graphs; on the graph of four vertices the path
\* from 0 through 1 to 2 weighs nothing, so vertex 2 stands in the bucket beside
\* vertex 1 whenever the edge from 0 to 2 is light
WeightsQueued(shape) ==
    {ws \in [1..Len(shape.edges) -> 0..MaxW] :
        shape.n = 4 => ws[1] = 0 /\ ws[3] = 0}

\* compute up to the construction of the pool: lines 46-155. The workers are at
\* running.wait(false).
InitQueued ==
    \E sh \in ShapesQueued : \E ws \in WeightsQueued(sh) :
        \E dl \in 1..MaxDelta : \E nt \in 1..MaxThreads :
            /\ solver = 4
            /\ graph = GraphCtor(sh.n, WeightedEdges(sh, ws))
            /\ source = sh.source
            /\ delta = dl
            /\ num_threads = nt
            /\ dist = [v \in 0..(sh.n - 1) |-> IF v = sh.source THEN 0 ELSE INF_MAX]
            /\ nodes = [v \in 0..(sh.n - 1) |-> NewNode]
            /\ buckets = (0 :> sh.source)
            /\ max_bucket_size = 1
            /\ Rl = << >>
            /\ Rh = << >>
            /\ Rl_map = << >>
            /\ Rh_map = << >>
            /\ running = FALSE
            /\ num_active_workers = 0
            /\ tasks = << >>
            /\ stopped = FALSE
            /\ cpc = "q_for"
            /\ cl = NoQCtrl
            /\ wpc = [w \in 0..(nt - 1) |-> "idle"]
            /\ wl = [w \in 0..(nt - 1) |-> NoQLocals]
            /\ position_in_bucket = << >>
            /\ light_nodes_requested = << >>
            /\ heavy_nodes_requested = << >>
            /\ light_nodes_counter = 0
            /\ heavy_nodes_counter = 0
            /\ light_request_map = << >>
            /\ heavy_request_map = << >>
            /\ current_generation = 0
            /\ generations_without_bucket = 0
            /\ prefix = << >>
            /\ thread_totals = << >>
            /\ thread_pref = << >>
            /\ curr_ptr = 0
            /\ ready = << >>
            /\ barrier = [count |-> 0, phase |-> 0]
            /\ arrived_phase = << >>
            /\ ub = {}
            /\ hist = NoHist(sh.n, nt)

\* the variables of the other solvers
q_rest ==
    <<position_in_bucket, light_nodes_requested, heavy_nodes_requested,
      light_nodes_counter, heavy_nodes_counter, light_request_map, heavy_request_map,
      current_generation, generations_without_bucket, prefix, thread_totals,
      thread_pref, curr_ptr, ready, barrier, arrived_phase, hist>>

q_unused == <<q_rest, ub>>

\* for (int i = 0; i < (int)buckets.size(); ++i): line 157
QFor ==
    /\ cpc = "q_for"
    /\ cpc' = IF cl.i < seq_size(buckets) THEN "q_while" ELSE "q_stop"
    /\ UNCHANGED <<inputs, dist, buckets, queued, cl, tasks, stopped, wpc, wl, q_unused>>

\* while (!buckets[i].empty()) with lines 159-163, or on to Loop 3
QWhile ==
    /\ cpc = "q_while"
    /\ IF buckets[cl.i] # nullptr
       THEN LET r == list_all_and_clear(nodes, buckets[cl.i], << >>)
            IN  /\ Rl' = << >>
                /\ Rl_map' = << >>
                /\ nodes' = r.nodes
                /\ buckets' = [buckets EXCEPT ![cl.i] = r.head]
                /\ cl' = [cl EXCEPT !.curr_bucket = r.res, !.phase = "gen"]
       ELSE /\ cl' = [cl EXCEPT !.phase = "heavy"]
            /\ UNCHANGED <<Rl, Rl_map, nodes, buckets>>
    /\ cpc' = "q_start"
    /\ UNCHANGED <<inputs, dist, max_bucket_size, Rh, Rh_map, running,
                   num_active_workers, tasks, stopped, wpc, wl, q_unused>>

\* pool.start() and the sizes of lines 169-171, 196-198, 218-220
QStart ==
    /\ cpc = "q_start"
    /\ running' = TRUE
    /\ LET size == CASE cl.phase = "gen" -> Len(cl.curr_bucket)
                     [] cl.phase = "light" -> Len(Rl)
                     [] OTHER -> Len(Rh)
       IN  cl' = [cl EXCEPT !.size = size, !.chunk_size = ChunkOf(size), !.idx = 0]
    /\ cpc' = "q_push"
    /\ UNCHANGED <<inputs, dist, buckets, nodes, max_bucket_size, Rl, Rh, Rl_map, Rh_map,
                   num_active_workers, tasks, stopped, wpc, wl, q_unused>>

\* the task the controller pushes next: in Loop 1 two per idx, light then heavy
QTaskFor(j) ==
    LET t == IF cl.phase = "gen" THEN j \div 2 ELSE j
        start == t * cl.chunk_size
        end == Min(start + cl.chunk_size, cl.size)
        kind == CASE cl.phase = "gen" /\ j % 2 = 0 -> "gen_light"
                  [] cl.phase = "gen" -> "gen_heavy"
                  [] cl.phase = "light" -> "relax_light"
                  [] OTHER -> "relax_heavy"
    IN  QTask(kind, start, end)

QPushCount == IF cl.phase = "gen" THEN 2 * num_threads ELSE num_threads

\* pool.push of lines 178, 184, 205, 227 (FlexiblePool::push, lines 158-165)
QPush ==
    /\ cpc = "q_push"
    /\ tasks' = Append(tasks, QTaskFor(cl.idx))
    /\ cl' = [cl EXCEPT !.idx = @ + 1]
    /\ cpc' = IF cl.idx + 1 = QPushCount THEN "q_reset" ELSE cpc
    /\ UNCHANGED <<inputs, dist, buckets, queued, stopped, wpc, wl, q_unused>>

\* a reset that does not wait for the workers to become active
none_awaited == TRUE

\* the exit condition of reset's first wait, lines 76-78
all_active == num_active_workers >= num_threads

\* FlexiblePool::reset up to line 83
QReset ==
    /\ cpc = "q_reset"
    /\ all_active
    /\ running' = FALSE
    /\ stopped' = FALSE
    /\ cl' = [cl EXCEPT !.idx = 0]
    /\ cpc' = "q_reset_push"
    /\ UNCHANGED <<inputs, dist, buckets, nodes, max_bucket_size, Rl, Rh, Rl_map, Rh_map,
                   num_active_workers, tasks, wpc, wl, q_unused>>

\* FlexiblePool::reset, lines 85-89: one RESET task per worker
QResetPush ==
    /\ cpc = "q_reset_push"
    /\ tasks' = Append(tasks, QTask("RESET", 0, 0))
    /\ cl' = [cl EXCEPT !.idx = @ + 1]
    /\ cpc' = IF cl.idx + 1 = num_threads THEN "q_reset_join" ELSE cpc
    /\ UNCHANGED <<inputs, dist, buckets, queued, stopped, wpc, wl, q_unused>>

\* FlexiblePool::reset, lines 92-94, and what compute does next: Loop 2 after
\* Loop 1, the while test after Loop 2, lines 237-238 and ++i after Loop 3
QResetJoin ==
    /\ cpc = "q_reset_join"
    /\ num_active_workers = 0
    /\ CASE cl.phase = "gen" ->
              /\ cl' = [cl EXCEPT !.phase = "light"]
              /\ cpc' = "q_start"
              /\ UNCHANGED <<Rh, Rh_map>>
         [] cl.phase = "light" ->
              /\ cl' = [cl EXCEPT !.curr_bucket = << >>]
              /\ cpc' = "q_while"
              /\ UNCHANGED <<Rh, Rh_map>>
         [] OTHER ->
              /\ cl' = [cl EXCEPT !.i = @ + 1]
              /\ Rh' = << >>
              /\ Rh_map' = << >>
              /\ cpc' = "q_for"
    /\ UNCHANGED <<inputs, dist, buckets, nodes, max_bucket_size, Rl, Rl_map, running,
                   num_active_workers, tasks, stopped, wpc, wl, q_unused>>

\* FlexiblePool::stop, lines 175-178
QStop ==
    /\ cpc = "q_stop"
    /\ running' = TRUE
    /\ cl' = [cl EXCEPT !.idx = 0]
    /\ cpc' = "q_stop_push"
    /\ UNCHANGED <<inputs, dist, buckets, nodes, max_bucket_size, Rl, Rh, Rl_map, Rh_map,
                   num_active_workers, tasks, stopped, wpc, wl, q_unused>>

\* FlexiblePool::stop, lines 179-183: one STOP task per worker
QStopPush ==
    /\ cpc = "q_stop_push"
    /\ tasks' = Append(tasks, QTask("STOP", 0, 0))
    /\ cl' = [cl EXCEPT !.idx = @ + 1]
    /\ cpc' = IF cl.idx + 1 = num_threads THEN "q_join" ELSE cpc
    /\ UNCHANGED <<inputs, dist, buckets, queued, stopped, wpc, wl, q_unused>>

\* FlexiblePool::stop, lines 184-189, and return dist
QJoin ==
    /\ cpc = "q_join"
    /\ \A w \in Workers : wpc[w] = "exited"
    /\ stopped' = TRUE
    /\ cpc' = "done"
    /\ UNCHANGED <<inputs, dist, buckets, queued, cl, tasks, wpc, wl, q_unused>>

\* do_work: running.wait(false) returns, line 103
QWake(w) ==
    /\ wpc[w] = "idle"
    /\ running
    /\ wpc' = [wpc EXCEPT ![w] = "woken"]
    /\ UNCHANGED <<inputs, dist, buckets, queued, cpc, cl, tasks, stopped, wl, q_unused>>

\* do_work: num_active_workers.fetch_add(1), line 104
QActive(w) ==
    /\ wpc[w] = "woken"
    /\ num_active_workers' = num_active_workers + 1
    /\ wpc' = [wpc EXCEPT ![w] = "pop"]
    /\ UNCHANGED <<inputs, dist, buckets, nodes, max_bucket_size, Rl, Rh, Rl_map, Rh_map,
                   running, cpc, cl, tasks, stopped, wl, q_unused>>

\* do_work: tasks.pop(task) returns true with the oldest task, lines 108-110
QPop(w) ==
    /\ wpc[w] = "pop"
    /\ tasks # << >>
    /\ tasks' = Tail(tasks)
    /\ wl' = [wl EXCEPT ![w] = [NoQLocals EXCEPT !.task = Head(tasks),
                                                 !.idx = Head(tasks).start]]
    /\ wpc' = [wpc EXCEPT ![w] =
                  CASE Head(tasks).kind \in {"gen_light", "gen_heavy"} -> "gen"
                    [] Head(tasks).kind \in {"relax_light", "relax_heavy"} -> "relax"
                    [] Head(tasks).kind = "RESET" -> "reset_ack"
                    [] OTHER -> "stop_ack"]
    /\ UNCHANGED <<inputs, dist, buckets, queued, cpc, cl, stopped, q_unused>>

\* one turn of the loops of a Loop 1 task (lines 179-182 or 185-188 with
\* gen_light_request or gen_heavy_request, lines 133-147): the test of the next
\* edge of curr_bucket[idx_u] and its add_request, or the next vertex, or the
\* return of the task
QGen(w) ==
    /\ wpc[w] = "gen"
    /\ LET l == wl[w]
           is_light == l.task.kind = "gen_light"
       IN  IF l.idx >= l.task.end
           THEN /\ wpc' = [wpc EXCEPT ![w] = "pop"]
                /\ UNCHANGED <<wl, Rl, Rh, Rl_map, Rh_map>>
           ELSE LET u == cl.curr_bucket[l.idx + 1]
                    edges == IF is_light THEN light_edges(u) ELSE heavy_edges(u)
                IN  IF l.k > Len(edges)
                    THEN /\ wl' = [wl EXCEPT ![w].idx = @ + 1, ![w].k = 1]
                         /\ UNCHANGED <<wpc, Rl, Rh, Rl_map, Rh_map>>
                    ELSE LET e == edges[l.k]
                             request == [u |-> u, v |-> e.v, w |-> e.w]
                             r == IF is_light THEN add_request(Rl, Rl_map, request)
                                  ELSE add_request(Rh, Rh_map, request)
                         IN  /\ wl' = [wl EXCEPT ![w].k = @ + 1]
                             /\ wpc' = wpc
                             /\ IF dist[u] + e.w < dist[e.v]
                                THEN IF is_light
                                     THEN /\ Rl' = r.requests /\ Rl_map' = r.positions
                                          /\ UNCHANGED <<Rh, Rh_map>>
                                     ELSE /\ Rh' = r.requests /\ Rh_map' = r.positions
                                          /\ UNCHANGED <<Rl, Rl_map>>
                                ELSE UNCHANGED <<Rl, Rh, Rl_map, Rh_map>>
    /\ UNCHANGED <<inputs, dist, buckets, nodes, max_bucket_size, running,
                   num_active_workers, cpc, cl, tasks, stopped, q_unused>>

\* the request a relax task is at
QRequest(l) == IF l.task.kind = "relax_light" THEN Rl[l.idx + 1] ELSE Rh[l.idx + 1]

\* a relax task (lines 206-209 or 228-231) at the test of relax, lines 94-98: the
\* next request, or the return of the task
QRelaxTest(w) ==
    /\ wpc[w] = "relax"
    /\ LET l == wl[w]
       IN  IF l.idx >= l.task.end
           THEN /\ wpc' = [wpc EXCEPT ![w] = "pop"]
                /\ wl' = wl
           ELSE LET request == QRequest(l)
                IN  IF dist[request.u] + request.w < dist[request.v]
                    THEN /\ wl' = [wl EXCEPT
                                      ![w].sum = dist[request.u] + request.w,
                                      ![w].old_bucket = seq_get_bucket(dist[request.v])]
                         /\ wpc' = [wpc EXCEPT ![w] = "relax_write"]
                    ELSE /\ wl' = [wl EXCEPT ![w].idx = @ + 1]
                         /\ wpc' = wpc
    /\ UNCHANGED <<inputs, dist, buckets, queued, cpc, cl, tasks, stopped, q_unused>>

\* relax, lines 99-100: dist[v] = dist[u] + w. dist[u] is read without
\* synchronisation while another worker may write it, so the sum stored is the
\* one of the test (kept in a register) or one read anew.
QRelaxWrite(w) ==
    /\ wpc[w] = "relax_write"
    /\ LET request == QRequest(wl[w])
       IN  /\ \E sum \in {wl[w].sum, dist[request.u] + request.w} :
                  /\ dist' = [dist EXCEPT ![request.v] = sum]
                  /\ wl' = [wl EXCEPT ![w].sum = sum,
                                      ![w].new_bucket = seq_get_bucket(sum)]
           /\ ub' = IF wl[w].sum # dist[request.u] + request.w
                    THEN ub \cup {"dist[u] read while another worker writes it"}
                    ELSE ub
    /\ wpc' = [wpc EXCEPT ![w] = "relax_move"]
    /\ UNCHANGED <<inputs, buckets, queued, cpc, cl, tasks, stopped, q_rest>>

\* relax, lines 101-113, under lock_ngu
QRelaxMove(w) ==
    /\ wpc[w] = "relax_move"
    /\ q_move(QRequest(wl[w]).v, wl[w].old_bucket, wl[w].new_bucket)
    /\ wl' = [wl EXCEPT ![w].idx = @ + 1]
    /\ wpc' = [wpc EXCEPT ![w] = "relax"]
    /\ UNCHANGED <<inputs, dist, Rl, Rh, Rl_map, Rh_map, running, num_active_workers,
                   cpc, cl, tasks, stopped, q_unused>>

\* do_work after a RESET task: lines 116-120, back to running.wait(false)
QResetAck(w) ==
    /\ wpc[w] = "reset_ack"
    /\ num_active_workers' = num_active_workers - 1
    /\ wpc' = [wpc EXCEPT ![w] = "idle"]
    /\ UNCHANGED <<inputs, dist, buckets, nodes, max_bucket_size, Rl, Rh, Rl_map, Rh_map,
                   running, cpc, cl, tasks, stopped, wl, q_unused>>

\* do_work after a STOP task: lines 111-115, the thread ends
QStopAck(w) ==
    /\ wpc[w] = "stop_ack"
    /\ num_active_workers' = num_active_workers - 1
    /\ wpc' = [wpc EXCEPT ![w] = "exited"]
    /\ UNCHANGED <<inputs, dist, buckets, nodes, max_bucket_size, Rl, Rh, Rl_map, Rh_map,
                   running, cpc, cl, tasks, stopped, wl, q_unused>>

NextQueued ==
    \/ QFor
    \/ QWhile
    \/ QStart
    \/ QPush
    \/ QReset
    \/ QResetPush
    \/ QResetJoin
    \/ QStop
    \/ QStopPush
    \/ QJoin
    \/ \E w \in Workers :
           \/ QWake(w)
           \/ QActive(w)
           \/ QPop(w)
           \/ QGen(w)
           \/ QRelaxTest(w)
           \/ QRelaxWrite(w)
           \/ QRelaxMove(w)
           \/ QResetAck(w)
           \/ QStopAck(w)

SpecQueued == InitQueued /\ [][NextQueued]_vars

\* ------------------------------------------- snapshots that hold tombstones
\* A graph on which the first solver meets a bucket snapshot with a tombstone
\* beside a live vertex: vertex 1 enters a far bucket beside vertex 2 and is
\* moved to a nearer one through vertex 3 before the far bucket is drained.
ShapesTomb ==
    { [n |-> 4, source |-> 0,
       edges |-> << <<0, 1>>, <<0, 2>>, <<0, 3>>, <<3, 1>>, <<2, 0>>, <<2, 3>> >>] }

\* the first two edges are as heavy as can be, the two edges out of vertex 2
\* weigh nothing
WeightsTomb(shape) ==
    {ws \in [1..Len(shape.edges) -> 0..MaxW] :
        ws[1] = MaxW /\ ws[2] = MaxW /\ ws[5] = 0 /\ ws[6] = 0}

InitTomb ==
    \E sh \in ShapesTomb : \E ws \in WeightsTomb(sh) :
        \E dl \in 1..MaxDelta : \E nt \in 1..MaxThreads :
            Setup(1, "cas", GraphCtor(sh.n, WeightedEdges(sh, ws)), sh.source, dl, nt)

SpecTomb == InitTomb /\ [][Next]_vars

\* -------------------------- a bucket that loses one vertex and gains another
\* A graph on which, in one light phase of the first solver, vertex 2 can leave
\* a later bucket for the current one while vertex 4 enters that later bucket:
\* both are reached from vertex 3, which enters the current bucket one
\* iteration after vertex 1 put vertex 2 into the later bucket.
ShapesShared ==
    { [n |-> 5, source |-> 0,
       edges |-> << <<0, 1>>, <<1, 2>>, <<1, 3>>, <<3, 2>>, <<3, 4>>, <<0, 1>> >>] }

\* the two edges that make vertex 3 and then vertex 2 catch up weigh nothing,
\* every other edge weighs something
WeightsShared(shape) ==
    {ws \in [1..Len(shape.edges) -> 0..MaxW] :
        \A k \in 1..Len(shape.edges) : ws[k] = 0 <=> k \in {3, 4}}

InitShared ==
    \E sh \in ShapesShared : \E ws \in WeightsShared(sh) :
        \E dl \in 1..MaxDelta : \E nt \in 1..MaxThreads :
            Setup(1, "cas", GraphCtor(sh.n, WeightedEdges(sh, ws)), sh.source, dl, nt)

SpecShared == InitShared /\ [][Next]_vars

\* ------------------------------ a blocking queue's pop returns without a task
\* The pool of the queue-backed solver with a queue that breaks its contract:
\* whenever a worker is in tasks.pop(task), the call may return false.

ShapesBreach ==
    { [n |-> 1, source |-> 0, edges |-> << <<0, 0>> >>],
      [n |-> 2, source |-> 1, edges |-> << <<1, 0>>, <<0, 1>> >>] }

InitBreach == InitQueued /\ \E sh \in ShapesBreach : n = sh.n /\ source = sh.source

\* do_work, lines 122-128: tasks.is_blocking() is true, so the worker writes the
\* line to std::cerr and returns; the thread function ends, nothing else does
QPopFails(w) ==
    /\ wpc[w] = "pop"
    /\ hist' = [hist EXCEPT !.log =
                   Append(@, "[FlexiblePool] [FATAL] Blocking queue returns false from pop().")]
    /\ wpc' = [wpc EXCEPT ![w] = "returned"]
    /\ UNCHANGED <<inputs, algo, queued, cpc, cl, tasks, ready, stopped, wl, barrier,
                   arrived_phase, ub>>

NextBreach ==
    \/ NextQueued
    \/ \E w \in Workers : QPopFails(w)

SpecBreach == InitBreach /\ [][NextBreach]_vars

\* ------------------------------- relax called by every worker at once
\* The state a light-relaxation phase starts in, the tasks submitted and the
\* controller about to arrive at the barrier: vertices 1 and 2 are listed with
\* pending distances r1 and r2; vertex 2 may already sit in a later bucket (far).
\* With overlap every worker is handed the whole index range, so that every slot
\* is drained by every worker; without it the ranges are those compute hands out.
RelaxSetup(kind, dl, nt, r1, r2, far, overlap) ==
    LET g == GraphCtor(3, << [u |-> 0, v |-> 1, w |-> r1], [u |-> 0, v |-> 2, w |-> r2] >>)
        s == Start(1, kind, g, 0, dl, nt)
        H == CeilDiv(get_max_edge_weight(g), dl) + 5
        fb == (MaxW \div dl) % H
        chunk == (2 + nt - 1) \div nt
        task(w) == [NoTask EXCEPT !.kind = "relax",
                                  !.a = IF overlap THEN 0 ELSE w * chunk,
                                  !.b = IF overlap THEN 2 ELSE Min(w * chunk + chunk, 2)]
    IN  /\ solver = 1
        /\ graph = g
        /\ source = 0
        /\ delta = dl
        /\ num_threads = nt
        /\ dist = [s.dist EXCEPT ![2] = IF far THEN MaxW ELSE INF_MAX]
        /\ position_in_bucket = [s.position_in_bucket EXCEPT ![2] = IF far THEN 0 ELSE 0 - 1]
        /\ buckets = [i \in 0..(H - 1) |->
                         IF i = 0 THEN bucket_clear(s.buckets[0])
                         ELSE IF far /\ i = fb
                              THEN bucket_construct(bucket_advance(s.buckets[i]), 0, 2)
                              ELSE s.buckets[i]]
        /\ light_nodes_requested = [i \in 0..2 |-> IF i = 0 THEN 1 ELSE IF i = 1 THEN 2 ELSE 0]
        /\ heavy_nodes_requested = s.nodes_requested
        /\ light_nodes_counter = 2
        /\ heavy_nodes_counter = 0
        /\ light_request_map = [s.request_map EXCEPT ![1] = r1, ![2] = r2]
        /\ heavy_request_map = s.request_map
        /\ current_generation = 0
        /\ generations_without_bucket = 0
        /\ prefix = s.prefix
        /\ thread_totals = s.thread_totals
        /\ thread_pref = s.thread_totals
        /\ curr_ptr = 0
        /\ cpc = "arrive"
        /\ cl = [NoCtrl EXCEPT !.phase = "B", !.tid = nt, !.requests_size = 2,
                               !.chunk_size = chunk]
        /\ tasks = [w \in 0..(nt - 1) |-> task(w)]
        /\ ready = [w \in 0..(nt - 1) |-> TRUE]
        /\ stopped = FALSE
        /\ wpc = s.wpc
        /\ wl = s.wl
        /\ barrier = s.barrier
        /\ arrived_phase = s.arrived_phase
        /\ ub = {}
        /\ NoQueueState
        /\ hist = [NoHist(3, nt) EXCEPT
                       !.calls[FALSE] = [v \in 0..2 |-> IF v = 0 THEN 0 ELSE 1],
                       !.issued[FALSE] = [v \in 0..2 |-> IF v = 1 THEN r1
                                                          ELSE IF v = 2 THEN r2 ELSE INF_MAX],
                       !.completed[FALSE] = [v \in 0..2 |-> IF v = 1 THEN r1
                                                             ELSE IF v = 2 THEN r2 ELSE INF_MAX],
                       !.submitted = [w \in 0..(nt - 1) |-> << task(w) >>]]

InitRelax ==
    \E kind \in {"cas", "faa"} : \E dl \in 1..MaxDelta : \E nt \in 2..MaxThreads :
        \E r1 \in 0..MaxW : \E r2 \in 0..MaxW : \E far \in BOOLEAN : \E overlap \in BOOLEAN :
            RelaxSetup(kind, dl, nt, r1, r2, far, overlap)

NextRelax ==
    \/ CtrlArrive
    \/ \E w \in Workers : WorkerStartRelax(w)
    \/ \E w \in Workers : RelaxXchg(w)
    \/ \E w \in Workers : PushLoad(w)
    \/ \E w \in Workers : PushCas(w)
    \/ \E w \in Workers : PushFetchAdd(w)
    \/ \E w \in Workers : PushWrite(w)
    \/ \E w \in Workers : WorkerReset(w)
    \/ \E w \in Workers : WorkerArrive(w)
    \/ \E w \in Workers : WorkerLeave(w)

SpecRelax == InitRelax /\ [][NextRelax]_vars

\* --------------------------- SimplePool over HeadTailLockQueueBlocking
\* solver 5 is SimplePool<HeadTailLockQueueBlocking>: the owner pushes some
\* tasks and then stops the pool, each worker runs do_work. tasks is the queue
\* object: its nodes by address, the addresses deleted, head and tail, the
\* owner of each mutex (nullptr when free) and the threads blocked in
\* not_empty.wait. A task is "OK" (it returns true) or "STOP" (it returns false).

\* the tasks the owner pushes before it calls stop
MaxTasks == 2

\* the variables this pool never touches
b_rest == <<inputs, algo, ready, barrier, arrived_phase, queued, hist>>

NoBCtrl == [idx |-> 0, todo |-> 0, node |-> nullptr]

NoBLocals == [node |-> nullptr, new_head |-> nullptr, res |-> "-"]

\* HeadTailLockQueueNonBlocking(): one node, head and tail point at it
HeadTailLockQueue ==
    [node |-> (0 :> [data |-> "-", next |-> nullptr]), freed |-> {},
     head |-> 0, tail |-> 0, head_lock |-> nullptr, tail_lock |-> nullptr,
     not_empty |-> {}]

\* SimplePool(num_workers) has returned: the queue is empty, every worker is
\* about to call tasks.pop
InitBlocking ==
    \E nt \in 1..MaxThreads : \E k \in 0..MaxTasks :
        /\ solver = 5
        /\ graph = GraphCtor(1, << >>)
        /\ source = 0
        /\ delta = 1
        /\ num_threads = nt
        /\ dist = << >>
        /\ buckets = << >>
        /\ position_in_bucket = << >>
        /\ light_nodes_requested = << >>
        /\ heavy_nodes_requested = << >>
        /\ light_nodes_counter = 0
        /\ heavy_nodes_counter = 0
        /\ light_request_map = << >>
        /\ heavy_request_map = << >>
        /\ current_generation = 0
        /\ generations_without_bucket = 0
        /\ prefix = << >>
        /\ thread_totals = << >>
        /\ thread_pref = << >>
        /\ curr_ptr = 0
        /\ ready = << >>
        /\ barrier = [count |-> 0, phase |-> 0]
        /\ arrived_phase = << >>
        /\ nodes = << >>
        /\ max_bucket_size = 0
        /\ Rl = << >>
        /\ Rh = << >>
        /\ Rl_map = << >>
        /\ Rh_map = << >>
        /\ running = FALSE
        /\ num_active_workers = 0
        /\ tasks = HeadTailLockQueue
        /\ stopped = FALSE
        /\ cpc = "b_push"
        /\ cl = [NoBCtrl EXCEPT !.todo = k]
        /\ wpc = [w \in 0..(nt - 1) |-> "do_work"]
        /\ wl = [w \in 0..(nt - 1) |-> NoBLocals]
        /\ ub = {}
        /\ hist = NoHist(1, nt)

\* the element of the owner's next push: SimplePool::push of lines 54-60, then
\* stop's pushes of lines 64-68
BElement == IF cl.idx < cl.todo THEN "OK" ELSE "STOP"

\* the read of head->next in pop and the write of tail->next in push are on
\* one plain pointer when head and tail are the same node, under two mutexes
NextRace == "data race on Node::next (HeadTailLockQueueBlocking)"

\* push: Node *node = new Node; node->data = element (lines 70-71)
BNew ==
    /\ cpc = "b_push"
    /\ LET a == Cardinality(DOMAIN tasks.node)
       IN  /\ tasks' = [tasks EXCEPT !.node = (a :> [data |-> BElement, next |-> nullptr]) @@ @]
           /\ cl' = [cl EXCEPT !.node = a]
    /\ cpc' = "b_lock"
    /\ UNCHANGED <<b_rest, stopped, wpc, wl, ub>>

\* push: std::lock_guard<std::mutex> lk(tail_lock) (line 73)
BLock ==
    /\ cpc = "b_lock"
    /\ tasks.tail_lock = nullptr
    /\ tasks' = [tasks EXCEPT !.tail_lock = Controller]
    /\ cpc' = "b_link"
    /\ UNCHANGED <<b_rest, cl, stopped, wpc, wl, ub>>

\* push: tail->next = node (line 74)
BLink ==
    /\ cpc = "b_link"
    /\ tasks' = [tasks EXCEPT !.node[tasks.tail].next = cl.node]
    /\ ub' = IF tasks.tail = tasks.head /\ \E w \in Workers : wpc[w] = "c_test"
             THEN ub \cup {NextRace} ELSE ub
    /\ cpc' = "b_tail"
    /\ UNCHANGED <<b_rest, cl, stopped, wpc, wl>>

\* push: tail = node (line 75)
BTail ==
    /\ cpc = "b_tail"
    /\ tasks' = [tasks EXCEPT !.tail = cl.node]
    /\ cpc' = "b_notify"
    /\ UNCHANGED <<b_rest, cl, stopped, wpc, wl, ub>>

\* push: not_empty.notify_one() (line 76): one of the threads blocked in wait,
\* if there is one, is unblocked; otherwise the call has no effect
BNotify ==
    /\ cpc = "b_notify"
    /\ IF tasks.not_empty = {}
       THEN UNCHANGED <<tasks, wpc>>
       ELSE \E w \in tasks.not_empty :
                /\ tasks' = [tasks EXCEPT !.not_empty = @ \ {w}]
                /\ wpc' = [wpc EXCEPT ![w] = "c_relock"]
    /\ cpc' = "b_unlock"
    /\ UNCHANGED <<b_rest, cl, stopped, wl, ub>>

\* push: the end of the lock_guard's scope (line 77), then the owner's next
\* push, or the joins of stop
BUnlock ==
    /\ cpc = "b_unlock"
    /\ tasks' = [tasks EXCEPT !.tail_lock = nullptr]
    /\ cl' = [cl EXCEPT !.idx = @ + 1, !.node = nullptr]
    /\ cpc' = IF cl.idx + 1 = cl.todo + num_threads THEN "b_join" ELSE "b_push"
    /\ UNCHANGED <<b_rest, stopped, wpc, wl, ub>>

\* SimplePool::stop: workers[i].join() for every worker, stopped = true
BJoin ==
    /\ cpc = "b_join"
    /\ \A w \in Workers : wpc[w] = "exited"
    /\ stopped' = TRUE
    /\ cpc' = "done"
    /\ UNCHANGED <<b_rest, cl, tasks, wpc, wl, ub>>

\* do_work: tasks.pop(task); pop: std::unique_lock<std::mutex> lk(head_lock)
\* (line 82)
CLock(w) ==
    /\ wpc[w] = "do_work"
    /\ tasks.head_lock = nullptr
    /\ tasks' = [tasks EXCEPT !.head_lock = w]
    /\ wpc' = [wpc EXCEPT ![w] = "c_test"]
    /\ UNCHANGED <<b_rest, cpc, cl, stopped, wl, ub>>

\* pop: while (head->next == nullptr) (line 83)
CTest(w) ==
    /\ wpc[w] = "c_test"
    /\ wpc' = [wpc EXCEPT ![w] =
                  IF tasks.node[tasks.head].next = nullptr THEN "c_wait" ELSE "c_take"]
    /\ ub' = IF tasks.tail = tasks.head /\ cpc = "b_link"
             THEN ub \cup {NextRace} ELSE ub
    /\ UNCHANGED <<b_rest, cpc, cl, tasks, stopped, wl>>

\* pop: not_empty.wait(lk) is entered (line 84): in one step the mutex is
\* released and the thread joins those blocked on not_empty
CWait(w) ==
    /\ wpc[w] = "c_wait"
    /\ tasks' = [tasks EXCEPT !.head_lock = nullptr, !.not_empty = @ \cup {w}]
    /\ wpc' = [wpc EXCEPT ![w] = "c_blocked"]
    /\ UNCHANGED <<b_rest, cpc, cl, stopped, wl, ub>>

\* std::condition_variable::wait may unblock without a notification
CSpurious(w) ==
    /\ wpc[w] = "c_blocked"
    /\ w \in tasks.not_empty
    /\ tasks' = [tasks EXCEPT !.not_empty = @ \ {w}]
    /\ wpc' = [wpc EXCEPT ![w] = "c_relock"]
    /\ UNCHANGED <<b_rest, cpc, cl, stopped, wl, ub>>

\* pop: wait re-acquires the mutex before it returns (line 84)
CRelock(w) ==
    /\ wpc[w] = "c_relock"
    /\ tasks.head_lock = nullptr
    /\ tasks' = [tasks EXCEPT !.head_lock = w]
    /\ wpc' = [wpc EXCEPT ![w] = "c_test"]
    /\ UNCHANGED <<b_rest, cpc, cl, stopped, wl, ub>>

\* pop: node = head, new_head = node->next, res = new_head->data,
\* head = new_head (lines 86-89)
CTake(w) ==
    /\ wpc[w] = "c_take"
    /\ LET node == tasks.head
           new_head == tasks.node[node].next
       IN  /\ wl' = [wl EXCEPT ![w] = [node |-> node, new_head |-> new_head,
                                       res |-> tasks.node[new_head].data]]
           /\ tasks' = [tasks EXCEPT !.head = new_head]
    /\ wpc' = [wpc EXCEPT ![w] = "c_unlock"]
    /\ UNCHANGED <<b_rest, cpc, cl, stopped, ub>>

\* pop: lk.unlock(); delete node; return true (lines 90-92)
CUnlock(w) ==
    /\ wpc[w] = "c_unlock"
    /\ tasks' = [tasks EXCEPT !.head_lock = nullptr, !.freed = @ \cup {wl[w].node}]
    /\ wpc' = [wpc EXCEPT ![w] = "c_run"]
    /\ UNCHANGED <<b_rest, cpc, cl, stopped, wl, ub>>

\* do_work: if (!task()) return; otherwise the next turn of the loop (lines
\* 30-33)
CRun(w) ==
    /\ wpc[w] = "c_run"
    /\ wpc' = [wpc EXCEPT ![w] = IF wl[w].res = "STOP" THEN "exited" ELSE "do_work"]
    /\ UNCHANGED <<b_rest, cpc, cl, tasks, stopped, wl, ub>>

\* a step of the owner
BStep == BNew \/ BLock \/ BLink \/ BTail \/ BNotify \/ BUnlock \/ BJoin

\* a step of worker w that the code of pop and do_work makes
CStep(w) ==
    /\ w \in Workers
    /\ CLock(w) \/ CTest(w) \/ CWait(w) \/ CRelock(w) \/ CTake(w) \/ CUnlock(w) \/ CRun(w)

NextBlocking ==
    \/ BNew
    \/ BLock
    \/ BLink
    \/ BTail
    \/ BNotify
    \/ BUnlock
    \/ BJoin
    \/ \E w \in Workers : CLock(w)
    \/ \E w \in Workers : CTest(w)
    \/ \E w \in Workers : CWait(w)
    \/ \E w \in Workers : CSpurious(w)
    \/ \E w \in Workers : CRelock(w)
    \/ \E w \in Workers : CTake(w)
    \/ \E w \in Workers : CUnlock(w)
    \/ \E w \in Workers : CRun(w)

\* every thread that can take a step of its code takes one, and a thread that
\* can lock a mutex again and again locks it; a wait that returns without a
\* notification is possible and never owed
SpecBlocking ==
    /\ InitBlocking
    /\ [][NextBlocking]_vars
    /\ WF_vars(BStep)
    /\ \A w \in 0..(MaxThreads - 1) : SF_vars(CStep(w))

\* ------------------------------------------------------------ LockFreeStack
\* solver 6 is one LockFreeStack with num_threads threads, each making up to
\* MaxOps calls of push and pop in any order. tasks is the stack object: its
\* nodes by address, the addresses deleted, head and _size. operator new hands
\* out a fresh address or one deleted before. The elements pushed are all
\* different. stale, among a thread's locals, is history: the node old_head
\* pointed at when it was loaded has been deleted since.

\* the calls each thread makes
MaxOps == 3

NoSLocals ==
    [ops |-> 0, element |-> 0, new_node |-> nullptr, old_head |-> nullptr,
     next |-> nullptr, res |-> 0, stale |-> FALSE]

\* LockFreeStack(): head{nullptr}, _size{0}
LockFreeStack == [node |-> << >>, freed |-> {}, head |-> nullptr, _size |-> 0]

InitStack ==
    \E nt \in 1..MaxThreads :
        /\ solver = 6
        /\ graph = GraphCtor(1, << >>)
        /\ source = 0
        /\ delta = 1
        /\ num_threads = nt
        /\ dist = << >>
        /\ buckets = << >>
        /\ position_in_bucket = << >>
        /\ light_nodes_requested = << >>
        /\ heavy_nodes_requested = << >>
        /\ light_nodes_counter = 0
        /\ heavy_nodes_counter = 0
        /\ light_request_map = << >>
        /\ heavy_request_map = << >>
        /\ current_generation = 0
        /\ generations_without_bucket = 0
        /\ prefix = << >>
        /\ thread_totals = << >>
        /\ thread_pref = << >>
        /\ curr_ptr = 0
        /\ ready = << >>
        /\ barrier = [count |-> 0, phase |-> 0]
        /\ arrived_phase = << >>
        /\ nodes = << >>
        /\ max_bucket_size = 0
        /\ Rl = << >>
        /\ Rh = << >>
        /\ Rl_map = << >>
        /\ Rh_map = << >>
        /\ running = FALSE
        /\ num_active_workers = 0
        /\ tasks = LockFreeStack
        /\ stopped = FALSE
        /\ cpc = "-"
        /\ cl = NoBCtrl
        /\ wpc = [w \in 0..(nt - 1) |-> "call"]
        /\ wl = [w \in 0..(nt - 1) |-> NoSLocals]
        /\ ub = {}
        /\ hist = NoHist(1, nt)

\* the variables the stack's threads never touch
s_rest == <<inputs, algo, ready, barrier, arrived_phase, queued, cpc, cl, stopped>>

UseAfterFree == "LockFreeStack::pop reads a node that was deleted"

DoubleFree == "LockFreeStack::pop deletes a node that was deleted"

\* what a read of the field f of the node at address a gives: the field, or,
\* when the node was deleted, whatever the memory holds by then
Deref(a, f, values) == IF a \in tasks.freed THEN values \cup {tasks.node[a][f]}
                       ELSE {tasks.node[a][f]}

\* the addresses and the elements there are
Addresses == DOMAIN tasks.node \cup {nullptr}

Elements == {tasks.node[a].data : a \in DOMAIN tasks.node}

\* push(element): Node *new_node = new Node; new_node->data = element (lines
\* 11-12, 18-19)
StackPushNew(w) ==
    /\ wpc[w] = "call"
    /\ wl[w].ops < MaxOps
    /\ LET element == MaxOps * w + wl[w].ops + 1
       IN  \E a \in tasks.freed \cup {Cardinality(DOMAIN tasks.node)} :
               /\ tasks' = [tasks EXCEPT
                      !.node = (a :> [data |-> element, next |-> nullptr]) @@ @,
                      !.freed = @ \ {a}]
               /\ wl' = [wl EXCEPT ![w] = [NoSLocals EXCEPT !.ops = wl[w].ops + 1,
                                               !.element = element, !.new_node = a]]
    /\ wpc' = [wpc EXCEPT ![w] = "push_load"]
    /\ UNCHANGED <<s_rest, ub, hist>>

\* push: new_node->next = head (lines 13, 20)
StackPushLoad(w) ==
    /\ wpc[w] = "push_load"
    /\ tasks' = [tasks EXCEPT !.node[wl[w].new_node].next = tasks.head]
    /\ wpc' = [wpc EXCEPT ![w] = "push_cas"]
    /\ UNCHANGED <<s_rest, wl, ub, hist>>

\* push: head.compare_exchange_weak(new_node->next, new_node) (lines 14, 21);
\* a weak exchange may fail although the values compare equal
StackPushCas(w) ==
    /\ wpc[w] = "push_cas"
    /\ LET new_node == wl[w].new_node
       IN  \/ /\ tasks.head = tasks.node[new_node].next
              /\ tasks' = [tasks EXCEPT !.head = new_node]
              /\ hist' = [hist EXCEPT !.stack_in = @ \cup {wl[w].element}]
              /\ wpc' = [wpc EXCEPT ![w] = "push_size"]
           \/ /\ tasks' = [tasks EXCEPT !.node[new_node].next = tasks.head]
              /\ UNCHANGED <<wpc, hist>>
    /\ UNCHANGED <<s_rest, wl, ub>>

\* push: _size.fetch_add(1) (lines 15, 22)
StackPushSize(w) ==
    /\ wpc[w] = "push_size"
    /\ tasks' = [tasks EXCEPT !._size = (@ + 1) % SIZE_MOD]
    /\ wpc' = [wpc EXCEPT ![w] = "call"]
    /\ UNCHANGED <<s_rest, wl, ub, hist>>

\* where pop goes with old_head: the test old_head != nullptr of lines 26-27
AfterLoad(old_head) == IF old_head = nullptr THEN "call" ELSE "pop_next"

\* pop(res): Node *old_head = head (line 25); return false on an empty stack
\* (line 33)
StackPopLoad(w) ==
    /\ wpc[w] = "call"
    /\ wl[w].ops < MaxOps
    /\ wl' = [wl EXCEPT ![w] = [NoSLocals EXCEPT !.ops = wl[w].ops + 1,
                                                !.old_head = tasks.head]]
    /\ wpc' = [wpc EXCEPT ![w] = AfterLoad(tasks.head)]
    /\ UNCHANGED <<s_rest, tasks, ub, hist>>

\* pop: the argument old_head->next of the exchange is evaluated (line 26)
StackPopNext(w) ==
    /\ wpc[w] = "pop_next"
    /\ \E nx \in Deref(wl[w].old_head, "next", Addresses) :
           wl' = [wl EXCEPT ![w].next = nx]
    /\ ub' = IF wl[w].stale THEN ub \cup {UseAfterFree} ELSE ub
    /\ wpc' = [wpc EXCEPT ![w] = "pop_cas"]
    /\ UNCHANGED <<s_rest, tasks, hist>>

\* pop: head.compare_exchange_weak(old_head, old_head->next) (line 26); on
\* failure old_head holds what head held
StackPopCas(w) ==
    /\ wpc[w] = "pop_cas"
    /\ \/ /\ tasks.head = wl[w].old_head
          /\ tasks' = [tasks EXCEPT !.head = wl[w].next]
          /\ wpc' = [wpc EXCEPT ![w] = "pop_read"]
          /\ UNCHANGED wl
       \/ /\ wl' = [wl EXCEPT ![w].old_head = tasks.head, ![w].stale = FALSE]
          /\ wpc' = [wpc EXCEPT ![w] = AfterLoad(tasks.head)]
          /\ UNCHANGED tasks
    /\ UNCHANGED <<s_rest, ub, hist>>

\* pop: res = old_head->data (line 28), the element the call returns
StackPopRead(w) ==
    /\ wpc[w] = "pop_read"
    /\ \E e \in Deref(wl[w].old_head, "data", Elements) :
           /\ wl' = [wl EXCEPT ![w].res = e]
           /\ hist' = [hist EXCEPT !.stack_out = Append(@, e)]
    /\ ub' = IF wl[w].old_head \in tasks.freed THEN ub \cup {UseAfterFree} ELSE ub
    /\ wpc' = [wpc EXCEPT ![w] = "pop_delete"]
    /\ UNCHANGED <<s_rest, tasks>>

\* pop: delete old_head (line 29)
StackPopDelete(w) ==
    /\ wpc[w] = "pop_delete"
    /\ tasks' = [tasks EXCEPT !.freed = @ \cup {wl[w].old_head}]
    /\ ub' = IF wl[w].old_head \in tasks.freed THEN ub \cup {DoubleFree} ELSE ub
    /\ wl' = [u \in Workers |->
                 IF u # w /\ wpc[u] \in {"pop_next", "pop_cas"}
                    /\ wl[u].old_head = wl[w].old_head
                 THEN [wl[u] EXCEPT !.stale = TRUE] ELSE wl[u]]
    /\ wpc' = [wpc EXCEPT ![w] = "pop_size"]
    /\ UNCHANGED <<s_rest, hist>>

\* pop: _size.fetch_sub(1); return true (lines 30-31)
StackPopSize(w) ==
    /\ wpc[w] = "pop_size"
    /\ tasks' = [tasks EXCEPT !._size = (@ + SIZE_MOD - 1) % SIZE_MOD]
    /\ wpc' = [wpc EXCEPT ![w] = "call"]
    /\ UNCHANGED <<s_rest, wl, ub, hist>>

NextStack ==
    \/ \E w \in Workers : StackPushNew(w)
    \/ \E w \in Workers : StackPushLoad(w)
    \/ \E w \in Workers : StackPushCas(w)
    \/ \E w \in Workers : StackPushSize(w)
    \/ \E w \in Workers : StackPopLoad(w)
    \/ \E w \in Workers : StackPopNext(w)
    \/ \E w \in Workers : StackPopCas(w)
    \/ \E w \in Workers : StackPopRead(w)
    \/ \E w \in Workers : StackPopDelete(w)
    \/ \E w \in Workers : StackPopSize(w)

SpecStack == InitStack /\ [][NextStack]_vars

\* ------------------------------------------------------------------ oracles
\* the weight of a lightest path: n - 1 rounds of relaxing every edge
EdgesInto(g, v) ==
    {<<u, i>> \in (DOMAIN g.adj) \X (1..MaxEdgesOf(g)) :
        i <= Len(g.adj[u]) /\ g.adj[u][i].v = v}

SetMin(S) == CHOOSE x \in S : \A y \in S : x <= y

RelaxAll(g, d) ==
    [v \in DOMAIN g.adj |->
        SetMin({d[v]} \cup {d[e[1]] + g.adj[e[1]][e[2]].w : e \in
                               {x \in EdgesInto(g, v) : d[x[1]] < INF_MAX}})]

RECURSIVE Rounds(_, _, _)
Rounds(g, d, i) == IF i = 0 THEN d ELSE Rounds(g, RelaxAll(g, d), i - 1)

ShortestDistances(g, src) ==
    Rounds(g, [v \in DOMAIN g.adj |-> IF v = src THEN 0 ELSE INF_MAX], graph_size(g))

\* Dijkstra::compute of dijkstra.h: a max-heap of <<-dist[v], v>> pairs, the
\* largest pair on top
pq_top(pq) ==
    CHOOSE p \in pq : \A q \in pq : q[1] < p[1] \/ (q[1] = p[1] /\ q[2] <= p[2])

\* for (const auto &[v, w] : graph[u]), from the k-th edge on: lines 22-27
RECURSIVE DijkstraEdges(_, _, _, _, _)
DijkstraEdges(g, u, k, d, pq) ==
    IF k > Len(g.adj[u]) THEN [dist |-> d, pq |-> pq]
    ELSE LET e == g.adj[u][k]
         IN  IF d[u] + e.w < d[e.v]
             THEN DijkstraEdges(g, u, k + 1, [d EXCEPT ![e.v] = d[u] + e.w],
                                pq \cup {<<0 - (d[u] + e.w), e.v>>})
             ELSE DijkstraEdges(g, u, k + 1, d, pq)

\* while (!pq.empty()): lines 17-28
RECURSIVE DijkstraLoop(_, _, _, _)
DijkstraLoop(g, d, vis, pq) ==
    IF pq = {} THEN d
    ELSE LET top == pq_top(pq)
             u == top[2]
         IN  IF u \in vis THEN DijkstraLoop(g, d, vis, pq \ {top})
             ELSE LET r == DijkstraEdges(g, u, 1, d, pq \ {top})
                  IN  DijkstraLoop(g, r.dist, vis \cup {u}, r.pq)

Dijkstra(g, src) ==
    DijkstraLoop(g, [v \in DOMAIN g.adj |-> IF v = src THEN 0 ELSE INF_MAX], {},
                 {<<0, src>>})

\* ------------------------------------------------------------- properties
\* compute has returned its vector to the caller
Returned == cpc = "done"

\* C1: the vector CompletelyBalancedDeltaStepping::compute returns holds, for
\* every vertex, the weight of a lightest path from the source, and infinity
\* for a vertex no path reaches, whatever the graph, the source, delta, the
\* number of threads and the interleaving of the workers.
C1_ReturnsShortestDistances ==
    (Returned /\ solver = 1) => dist = ShortestDistances(graph, source)

\* a run with two workers has returned a vector with a vertex at a positive
\* distance and a vertex no path reaches
C1_Witness ==
    /\ Returned /\ solver = 1 /\ num_threads = 2
    /\ \E v \in V : dist[v] > 0 /\ dist[v] < INF_MAX
    /\ \E v \in V : dist[v] = INF_MAX

\* C2: the vector CompletelyBalancedDeltaStepping2::compute returns equals the
\* vector Dijkstra::compute returns for the same graph and source, under every
\* interleaving of the controller and the workers.
C2_SameAsDijkstra ==
    (Returned /\ solver = 2) => dist = Dijkstra(graph, source)

\* C4: when compute returns no edge can be relaxed any further: every edge
\* (u, v, w) with a finite dist[u] has dist[v] <= dist[u] + w.
C4_NoEdgeRelaxable ==
    (Returned /\ solver = 1) =>
        \A u \in V : \A k \in 1..adj_size(graph, u) :
            dist[u] < INF_MAX =>
                dist[graph.adj[u][k].v] <= dist[u] + graph.adj[u][k].w

\* compute has returned on a graph with an edge that is not tight, an edge
\* that is tight and positive, and an edge that leaves an unreached vertex
C4_Witness ==
    /\ Returned /\ solver = 1
    /\ \E u \in V : \E k \in 1..adj_size(graph, u) :
           dist[u] < INF_MAX /\ dist[graph.adj[u][k].v] < dist[u] + graph.adj[u][k].w
    /\ \E u \in V : \E k \in 1..adj_size(graph, u) :
           /\ dist[u] < INF_MAX /\ graph.adj[u][k].w > 0
           /\ dist[graph.adj[u][k].v] = dist[u] + graph.adj[u][k].w
    /\ \E u \in V : adj_size(graph, u) > 0 /\ dist[u] = INF_MAX

\* the controller's arrive_and_wait() that ends a request-generation phase has
\* returned, and the controller has not gone on yet
AtGenBarrier == cpc = "wait" /\ cl.phase = "A" /\ Released(Controller)

\* the vertices add_request was called for since the index counter was reset
Requested(h) == {v \in V : hist.calls[h][v] > 0}

\* C6: at the barrier that ends a request-generation phase the first cnt
\* entries of each requested-vertex index hold every vertex that received a
\* request since the counter was last reset, each exactly once, and cnt is the
\* number of those vertices.
C6_IndexListsEachRequestedOnce ==
    AtGenBarrier =>
        \A h \in BOOLEAN :
            /\ ReqCounter(h) = Cardinality(Requested(h))
            /\ {ReqNodes(h)[i] : i \in 0..(ReqCounter(h) - 1)} = Requested(h)

\* a request-generation phase run by two workers has ended with a vertex that
\* received two requests
C6_Witness ==
    /\ AtGenBarrier /\ num_threads = 2
    /\ \E h \in BOOLEAN : \E v \in V : hist.calls[h][v] >= 2

\* every slot is at most the distance of every add_request call that has
\* returned for its vertex since the slot was last drained
SlotBelowReturned ==
    \A h \in BOOLEAN : \A v \in V : ReqMap(h)[v] <= hist.completed[h][v]

\* C7 as stated: req[v] <= d once add_request has returned and no drain has
\* run, and at the barrier ending a request phase req[v] is the least d of the
\* requests issued for v in that phase.
C7_SlotIsPhaseMinimum ==
    /\ SlotBelowReturned
    /\ AtGenBarrier =>
           \A h \in BOOLEAN : \A v \in V :
               hist.phase_issued[h][v] < INF_MAX =>
                   ReqMap(h)[v] = hist.phase_issued[h][v]

\* C7, amended: req[v] <= d once add_request has returned and no drain has
\* run, and at the barrier ending a request phase req[v] is the least d of the
\* requests issued for v since the slot of v was last drained (infinity if
\* there was none).
C7_SlotIsMinimumSinceDrain ==
    /\ SlotBelowReturned
    /\ AtGenBarrier =>
           \A h \in BOOLEAN : \A v \in V : ReqMap(h)[v] = hist.issued[h][v]

\* a request-generation phase run by two workers has ended with a slot that
\* took a request of a larger distance than the one it holds
C7_Witness ==
    /\ AtGenBarrier /\ num_threads = 2
    /\ \E v \in V : \E i \in 0..(cl.curr_bucket_size - 1) :
           LET u == bucket_at(buckets[current_generation], i)
           IN  /\ u >= 0
               /\ hist.calls[FALSE][v] >= 2
               /\ \E k \in 1..adj_size(graph, u) :
                      /\ graph.adj[u][k].v = v
                      /\ ~is_heavy(graph.adj[u][k].w)
                      /\ wants_request(u, graph.adj[u][k])
                      /\ dist[u] + graph.adj[u][k].w > light_request_map[v]

\* C3: compute terminates under fair scheduling: on graphs with self-loops,
\* zero-weight edges and cycles the outer loop reaches its stop condition and
\* compute returns.
C3_Terminates == <>Returned

\* compute has returned, with two workers, on a graph whose reached vertex has
\* a zero-weight self-loop or lies on a zero-weight cycle
C3_Witness ==
    /\ Returned /\ num_threads = 2
    /\ \/ \E u \in V : \E k \in 1..adj_size(graph, u) :
              /\ dist[u] < INF_MAX
              /\ graph.adj[u][k].v = u
              /\ graph.adj[u][k].w = 0
       \/ /\ n >= 2
          /\ \A u \in V : /\ dist[u] = 0
                           /\ adj_size(graph, u) = 1
                           /\ graph.adj[u][1].w = 0

\* C5: the vector compute returns depends on the graph and the source only: a
\* second call on the same graph and source, with any delta, any number of
\* threads and any schedule, returns the vector the first call returned.
C5_SameResultOnRerun ==
    (Returned /\ hist.run = 2) => dist = hist.first

\* a second call with another delta and another number of threads has returned
\* a vector with a vertex at a positive distance
C5_Witness ==
    /\ Returned /\ hist.run = 2
    /\ delta # hist.first_delta
    /\ num_threads # hist.first_threads
    /\ \E v \in V : dist[v] > 0 /\ dist[v] < INF_MAX

\* no push call is between its first step and its return
NoPushInFlight ==
    \A w \in Workers : wpc[w] \notin {"push_load", "push_cas", "push_write"}

\* C8: when several workers drain one request slot in the same phase, at most
\* one of them obtains the finite pending value; every other drain returns
\* infinity, writes no distance and pushes nothing, and the slot holds infinity
\* afterwards.
C8_OneDrainWins ==
    /\ \A d1 \in hist.drains : \A d2 \in hist.drains :
           (d1.heavy = d2.heavy /\ d1.v = d2.v /\ d1.got < INF_MAX /\ d2.got < INF_MAX)
               => d1 = d2
    /\ \A d \in hist.drains :
           d.got = INF_MAX =>
               /\ ~d.updated
               /\ \A p \in hist.pushes : ~(p.w = d.w /\ p.value = d.v)
    /\ \A d \in hist.drains : ReqMap(d.heavy)[d.v] = INF_MAX

\* a worker has drained a slot and obtained infinity while the worker that
\* obtained the slot's finite value is still inside the same relax call
C8_Witness ==
    \E d1 \in hist.drains : \E d2 \in hist.drains :
        /\ d1.v = d2.v /\ d1.heavy = d2.heavy /\ d1.w # d2.w
        /\ d1.got < INF_MAX /\ d1.updated
        /\ d2.got = INF_MAX
        /\ wpc[d1.w] \in {"push_load", "push_cas", "push_write"}
        /\ wl[d1.w].v = d1.v

\* C9: of the push calls made on one bucket with no clear in between, each
\* returns the value the tail held before the call's own increment, no two
\* return the same index, and once no call is in flight the slot at each
\* returned index holds the vertex that call pushed.
C9_PushIndicesDistinct ==
    /\ \A p \in hist.pushes : p.returned = p.before
    /\ \A p1 \in hist.pushes : \A p2 \in hist.pushes :
           (p1.bucket = p2.bucket /\ p1.returned = p2.returned) => p1 = p2
    /\ NoPushInFlight =>
           \A p \in hist.pushes : bucket_at(buckets[p.bucket], p.returned) = p.value

\* a push call has returned while another worker's call on the same bucket,
\* which advanced the tail earlier, has not yet written its slot
C9_Witness ==
    \E p \in hist.pushes : \E w \in Workers :
        /\ w # p.w
        /\ wpc[w] = "push_write"
        /\ wl[w].new_bucket = p.bucket
        /\ hist.pending[w] < p.before

\* the controller's arrive_and_wait() has returned and the controller has not
\* gone on yet
CtrlReleased == cpc = "wait" /\ Released(Controller)

\* C10: when the controller's barrier.arrive_and_wait() returns, every worker
\* has been handed exactly one task in the epoch, has run that task and no
\* other, has left it, and has no task pending.
C10_EveryTaskRanOnce ==
    CtrlReleased =>
        \A w \in Workers :
            /\ Len(hist.submitted[w]) = 1
            /\ hist.ran[w] = hist.submitted[w]
            /\ wpc[w] \in {"leave", "wait"}
            /\ ~ready[w]

\* the controller's arrive_and_wait() has returned in an epoch in which both of
\* two workers were handed a range that is not empty
C10_Witness ==
    /\ CtrlReleased /\ num_threads = 2
    /\ \A w \in Workers : /\ hist.ran[w] # << >>
                           /\ hist.ran[w][1].a < hist.ran[w][1].b

\* C11: when compute returns, every worker thread of the call has ended, by
\* running the task that returns false and no task after it; none waits on its
\* ready flag or stands at the barrier, and no arrival at the barrier is
\* pending.
C11_WorkersJoinedOnReturn ==
    Returned =>
        /\ \A w \in Workers :
               /\ wpc[w] = "exited"
               /\ hist.ran[w] = << [NoTask EXCEPT !.kind = "stop"] >>
               /\ hist.submitted[w] = hist.ran[w]
        /\ barrier.count = num_threads + 1

\* CompletelyBalancedDeltaStepping2::compute has returned through the pool's
\* destructor after two workers relaxed a vertex to a positive distance
C11_Witness ==
    /\ Returned /\ solver = 2 /\ num_threads = 2 /\ ~stopped
    /\ \E v \in V : dist[v] > 0 /\ dist[v] < INF_MAX

\* the bucket index of a distance before the modulo: int(dist[v] / delta)
UnboundedIndex(d) == d \div delta

\* the vertices held by the live entries of bucket slot i
LiveIn(i) ==
    {bucket_at(buckets[i], k) : k \in 0..(bucket_size(buckets[i]) - 1)} \ {0 - 1}

\* C12: when relax inserts a vertex into a bucket, the unbounded index of its
\* new distance is at least the unbounded index of the bucket being drained and
\* exceeds it by at most MAX_BUCKET_COUNT - 1, and the slot is that index modulo
\* MAX_BUCKET_COUNT; and whenever no push is in flight, the live entries of a
\* slot all belong to one unbounded index, the slot's own.
C12_NoBucketAliasing ==
    /\ \A w \in Workers :
           wpc[w] \in {"push_load", "push_cas", "push_write"} =>
               LET j == UnboundedIndex(dist[wl[w].v])
               IN  /\ j >= hist.generation
                   /\ j - hist.generation <= MAX_BUCKET_COUNT - 1
                   /\ wl[w].new_bucket = j % MAX_BUCKET_COUNT
    /\ NoPushInFlight =>
           \A i \in 0..(MAX_BUCKET_COUNT - 1) :
               \A a \in LiveIn(i) : \A b \in LiveIn(i) :
                   /\ UnboundedIndex(dist[a]) = UnboundedIndex(dist[b])
                   /\ UnboundedIndex(dist[a]) % MAX_BUCKET_COUNT = i

\* after the generation counter has wrapped, relax inserts a vertex whose
\* unbounded index lies further ahead, beyond MAX_BUCKET_COUNT - 1
C12_Witness ==
    \E w \in Workers :
        /\ wpc[w] = "push_write"
        /\ num_threads = 2
        /\ hist.generation >= MAX_BUCKET_COUNT
        /\ UnboundedIndex(dist[wl[w].v]) > hist.generation + 1

\* the for statement of compute has been left through its break
OuterLoopLeft == cpc \in {"stop", "join", "destroy", "destroy_join", "done"}

\* C13: when the outer loop has terminated, no bucket slot holds a live
\* (non-tombstoned) vertex entry.
C13_NoLiveEntryAtTermination ==
    OuterLoopLeft => \A i \in 0..(MAX_BUCKET_COUNT - 1) : LiveIn(i) = {}

\* the outer loop has terminated in a run of two workers in which a vertex was
\* inserted into a bucket other than the source's and another vertex was moved
\* out of the bucket it was first inserted into
C13_Witness ==
    /\ OuterLoopLeft /\ num_threads = 2
    /\ \E v \in V : dist[v] < INF_MAX /\ UnboundedIndex(dist[v]) >= 1
    /\ \E i \in 0..(MAX_BUCKET_COUNT - 1) :
           \E k \in 0..(buckets[i].capacity - 1) : buckets[i].data[k] = 0 - 1

\* C14: the outer loop stops exactly when generations_without_bucket reaches
\* MAX_BUCKET_COUNT: it has not stopped before, and the first test of the for
\* statement that sees the counter there breaks; and the counter reaches
\* MAX_BUCKET_COUNT only when, since a slot was last found to hold entries,
\* every one of the MAX_BUCKET_COUNT slots has been visited and found empty.
C14_StopsAfterFullEmptyPass ==
    /\ generations_without_bucket <= MAX_BUCKET_COUNT
    /\ OuterLoopLeft => generations_without_bucket = MAX_BUCKET_COUNT
    /\ generations_without_bucket = MAX_BUCKET_COUNT =>
           /\ cpc = "for" \/ OuterLoopLeft
           /\ hist.found_empty = 0..(MAX_BUCKET_COUNT - 1)
           /\ \A i \in 0..(MAX_BUCKET_COUNT - 1) : bucket_empty(buckets[i])
    /\ cpc = "for" => Cardinality(hist.found_empty) = generations_without_bucket

\* the counter has reached MAX_BUCKET_COUNT at the for statement, in a run of two
\* workers whose last bucket with entries was visited in the third generation
\* or later
C14_Witness ==
    /\ cpc = "for" /\ num_threads = 2
    /\ generations_without_bucket = MAX_BUCKET_COUNT
    /\ hist.generation > MAX_BUCKET_COUNT + 1
    /\ \E v \in V : dist[v] < INF_MAX /\ UnboundedIndex(dist[v]) >= 2

\* C15: the values dist[v] takes during compute never increase, and every write
\* of relax to dist[v] stores a value strictly smaller than the one it replaces.
C15_DistNeverIncreases ==
    [][ /\ \A v \in V : dist'[v] <= dist[v]
        /\ \A d \in hist'.drains \ hist.drains :
               d.updated => d.got < dist[d.v] /\ dist'[d.v] = d.got ]_vars

\* a relax call of a run of two workers has written a distance in a phase in
\* which a vertex that already had a finite distance was moved out of its
\* bucket by a smaller one
C15_Witness ==
    /\ num_threads = 2
    /\ \E d \in hist.drains : d.updated /\ dist[d.v] = d.got
    /\ \E i \in 0..(MAX_BUCKET_COUNT - 1) :
           \E k \in 0..(bucket_size(buckets[i]) - 1) : bucket_at(buckets[i], k) = 0 - 1

\* C16: dist[source] is 0 in every state of compute and in the returned vector;
\* no request is ever issued for the source, its request slots stay empty, and
\* no relax call writes its distance.
C16_SourceStaysZero ==
    /\ dist[source] = 0
    /\ \A h \in BOOLEAN : hist.calls[h][source] = 0 /\ ReqMap(h)[source] = INF_MAX
    /\ \A d \in hist.drains : d.v # source

\* compute has returned, with two workers, on a graph in which a zero-weight
\* edge leads from another reached vertex back into the source
C16_Witness ==
    /\ Returned /\ num_threads = 2
    /\ \E u \in V \ {source} : \E k \in 1..adj_size(graph, u) :
           /\ dist[u] < INF_MAX
           /\ graph.adj[u][k].v = source
           /\ graph.adj[u][k].w = 0

\* v has a non-tombstoned entry in the bucket of its distance
HasLiveEntry(v) == v \in LiveIn(get_bucket(dist[v]))

\* C17 as stated: at every quiescent point between phases every vertex of
\* finite distance has a non-tombstoned entry in the bucket of its distance, or
\* that bucket is the one drained in the current iteration.
C17_EntryOrCurrentBucket ==
    CtrlReleased =>
        \A v \in V :
            dist[v] < INF_MAX =>
                HasLiveEntry(v) \/ get_bucket(dist[v]) = current_generation

\* C17, amended: at every quiescent point between phases every vertex of
\* finite distance has a non-tombstoned entry in the bucket of its distance, or
\* the unbounded bucket index of its distance is at most that of the bucket of
\* the current iteration (its bucket is being drained or was drained and
\* cleared in an earlier iteration).
C17_EntryOrBucketReached ==
    CtrlReleased =>
        \A v \in V :
            dist[v] < INF_MAX =>
                HasLiveEntry(v) \/ UnboundedIndex(dist[v]) <= hist.generation

\* at a barrier of a run of two workers one vertex waits in a bucket ahead of
\* the current one and another, settled in an earlier iteration, has no entry
C17_Witness ==
    /\ CtrlReleased /\ num_threads = 2
    /\ \E v \in V : /\ dist[v] < INF_MAX
                     /\ UnboundedIndex(dist[v]) > hist.generation
                     /\ HasLiveEntry(v)
    /\ \E u \in V : /\ UnboundedIndex(dist[u]) < hist.generation
                     /\ ~HasLiveEntry(u)

\* C18 as stated: at every quiescent point between two phases every slot of
\* light_request_map and of heavy_request_map holds infinity.
C18_SlotsEmptyBetweenPhases ==
    CtrlReleased => \A h \in BOOLEAN : \A v \in V : ReqMap(h)[v] = INF_MAX

\* C18, amended: at the quiescent point that ends a light relax phase every
\* slot of light_request_map holds infinity, and at the one that ends a heavy
\* relax phase every slot of both maps holds infinity; between a request
\* generation phase and the relax phase that drains them the slots hold the
\* pending requests.
C18_SlotsEmptyAfterRelax ==
    CtrlReleased =>
        /\ cl.phase \in {"B", "C"} => \A v \in V : light_request_map[v] = INF_MAX
        /\ cl.phase = "C" => \A v \in V : heavy_request_map[v] = INF_MAX

\* a light relax phase of a run of two workers has ended: a light request was
\* drained and written, and a heavy request is still pending
C18_Witness ==
    /\ CtrlReleased /\ cl.phase = "B" /\ num_threads = 2
    /\ \E d \in hist.drains : ~d.heavy /\ d.got < INF_MAX /\ d.updated
    /\ \E v \in V : heavy_request_map[v] < INF_MAX

\* C19: in every state of compute the pushes made on a bucket since its last
\* clear number at most n, every push writes inside the bucket's storage, and
\* no push wraps around it: the bucket holds as many entries as were pushed.
C19_PushesFitCapacity ==
    \A i \in 0..(MAX_BUCKET_COUNT - 1) :
        /\ PushedIn(hist, i) <= n
        /\ \A w \in Workers :
               (wpc[w] = "push_write" /\ wl[w].new_bucket = i) =>
                   wl[w].current_tail \in DOMAIN buckets[i].data
        /\ bucket_size(buckets[i]) = PushedIn(hist, i)

\* the same for graphs of two or more vertices
TwoOrMore_PushesFitCapacity == n >= 2 => C19_PushesFitCapacity

\* an argument compute must not be called with
InvalidInput == source \notin V \/ delta <= 0 \/ num_threads <= 0

\* the state the set-up of compute ends in, as the solver's runs start from it
SetUpAs(s) ==
    /\ dist = s.dist /\ position_in_bucket = s.position_in_bucket
    /\ buckets = s.buckets
    /\ light_request_map = s.request_map /\ heavy_request_map = s.request_map
    /\ tasks = s.tasks /\ ready = s.ready /\ wpc = s.wpc /\ wl = s.wl
    /\ barrier = s.barrier /\ arrived_phase = s.arrived_phase
    /\ prefix = s.prefix /\ thread_totals = s.thread_totals

\* with valid arguments the steps of the set-up end in the state the runs of
\* the solver start from
EntryReachesSetup ==
    (cpc = "for" /\ ~InvalidInput) =>
        SetUpAs(Start(solver, "cas", graph, source, delta, num_threads))

\* C20: compute rejects a source outside [0, n), a delta <= 0 and a thread count
\* <= 0 before it allocates any state or starts any worker: with such an
\* argument compute is still at its entry or has rejected the call. No step of
\* the code leads to a rejection.
C20_RejectsInvalidInput ==
    InvalidInput =>
        /\ cpc \in {"entry", "rejected"}
        /\ dist = << >> /\ buckets = << >> /\ wpc = << >>

\* C21: for every graph with non-negative weights, every source and every
\* delta > 0, the vector DeltaSteppingSequential::compute returns equals the
\* vector Dijkstra::compute returns: the same finite entries, and infinity at
\* the same positions.
C21_SequentialSameAsDijkstra ==
    (Returned /\ solver = 3) => dist = Dijkstra(graph, source)

\* the sequential solver has returned a vector with a vertex reached over a
\* heavy edge, a vertex at a positive distance whose bucket lay beyond the
\* first size of the bucket vector, and a vertex no path reaches
C21_Witness ==
    /\ Returned /\ solver = 3
    /\ seq_size(buckets) > 2
    /\ \E v \in V : dist[v] > delta /\ dist[v] < INF_MAX
    /\ \E v \in V : dist[v] = INF_MAX
    /\ \E u \in V : \E k \in 1..Len(heavy_edges(u)) :
           dist[u] < INF_MAX /\ dist[heavy_edges(u)[k].v] = dist[u] + heavy_edges(u)[k].w

\* C22: for every graph with non-negative weights, every source, every delta > 0,
\* every thread count >= 1 and every interleaving of the pool workers, the
\* vector the queue-backed DeltaSteppingParallel::compute returns equals the
\* vector of the sequential Dijkstra baseline.
C22_QueuedSameAsDijkstra ==
    (Returned /\ solver = 4) => dist = Dijkstra(graph, source)

\* two workers have run, a worker stored a sum in dist[v] after another worker
\* had written dist[u] between its test and its store, the vector of buckets
\* was resized, and compute has returned
C22_Witness ==
    /\ Returned /\ solver = 4 /\ num_threads = 2
    /\ ub # {}
    /\ seq_size(buckets) >= 2
    /\ \E v \in V : dist[v] > 0 /\ dist[v] < INF_MAX

\* before compute has returned some step is possible: no state in which the
\* controller and every worker wait for ever
QueuedNeverStuck == (solver = 4 /\ ~Returned) => ENABLED NextQueued

\* a worker found that the blocking pop returned without a task
BreachFound == \E w \in Workers : wpc[w] = "returned"

\* the process has been terminated: no thread of it runs any more
ProcessTerminated == cpc = "terminated"

\* C23: when a worker of a queue-backed pool finds that a blocking queue's pop
\* returned without a task, the breach is fatal: it is logged and the whole
\* process terminates. In FlexiblePool::do_work the worker logs and returns from
\* its thread function only.
C23_BreachIsFatal ==
    BreachFound => (hist.log # << >> /\ ProcessTerminated)

\* the breach is logged, at least
BreachLogged == BreachFound => hist.log # << >>

\* after the breach the controller waits in reset for an acknowledgement that
\* cannot come: every other thread is waiting or has ended
BreachHangs ==
    /\ BreachFound
    /\ cpc = "q_reset_join"
    /\ ~ENABLED NextBreach

\* the edges of the live vertices of the bucket snapshot, each as <<index in
\* the bucket, index in the adjacency list>>
SnapshotEdges ==
    LET b == buckets[current_generation]
    IN  {p \in (0..(cl.curr_bucket_size - 1)) \X (0..(MaxEdgesOf(graph) - 1)) :
            /\ bucket_at(b, p[1]) >= 0
            /\ p[2] < adj_size(graph, bucket_at(b, p[1]))}

\* every edge of the snapshot was examined once, and nothing else was
ExaminedEachOnce ==
    /\ DOMAIN hist.examined = SnapshotEdges
    /\ \A p \in SnapshotEdges : hist.examined[p] = 1

\* C24: in the two-pass parallel-prefix partitioner, for every bucket snapshot,
\* every N and every interleaving of the controller's task submissions with the
\* workers' execution, every outgoing edge of every live snapshot vertex has
\* been examined by exactly one worker exactly once when the barrier that ends
\* request generation has released the controller.
C24_ParallelPrefixCoversEdges ==
    (solver = 2 /\ AtGenBarrier) => ExaminedEachOnce

\* C25: in the sequential-prefix partitioner, when the barrier that ends a
\* request-generation phase has released the controller, the edges examined by
\* the N workers are exactly the outgoing edges of the live vertices of the
\* bucket snapshot, each examined exactly once; tombstoned entries contribute
\* no edge.
C25_SequentialPrefixCoversEdges ==
    (solver = 1 /\ AtGenBarrier) => ExaminedEachOnce

\* two workers have each examined edges of a snapshot that holds a tombstone
\* and a live vertex with more than one edge
C25_Witness ==
    /\ solver = 1 /\ AtGenBarrier /\ num_threads = 2
    /\ \E i \in 0..(cl.curr_bucket_size - 1) :
           bucket_at(buckets[current_generation], i) < 0
    /\ \E p \in SnapshotEdges : p[2] > 0
    /\ \A w \in Workers : hist.ran[w] # << >> /\ hist.ran[w][1].a < hist.ran[w][1].b

\* the for statement hands a bucket slot to the while loop: its processing begins
BucketBegins == cpc = "for" /\ cpc' = "while"

\* every vertex whose distance falls into the bucket of the current iteration
\* has a live entry in it
CurrentBucketHoldsItsVertices ==
    \A v \in V :
        (dist[v] < INF_MAX /\ UnboundedIndex(dist[v]) = hist.generation) =>
            HasLiveEntry(v)

\* C26: every vertex whose tentative distance falls into a bucket that has not
\* yet been processed has a live entry in that bucket at the moment the
\* processing of that bucket begins.
C26_LiveEntryWhenBucketBegins ==
    [][BucketBegins => CurrentBucketHoldsItsVertices']_vars

\* every vertex whose distance falls into the bucket of the current iteration
\* or of a later one has a live entry in its bucket
LaterBucketsHoldTheirVertices ==
    \A v \in V :
        (dist[v] < INF_MAX /\ UnboundedIndex(dist[v]) >= hist.generation) =>
            HasLiveEntry(v)

\* on graphs of two or more vertices the entries are in place when a bucket
\* begins, for that bucket and for every later one
TwoOrMore_LiveEntryWhenBucketBegins ==
    [][(n >= 2 /\ BucketBegins) => LaterBucketsHoldTheirVertices']_vars

\* worker w executes relax from its exchange to the test for the push: lines 77-87
RelaxStep(w) ==
    wpc[w] = "xchg" /\ <<wpc'[w], wl'[w]>> # <<wpc[w], wl[w]>>

\* the vertex of the relax call worker w stands in, and the value it will drain
relax_v(w) == ReqNodes(wl[w].heavy)[wl[w].idx_r]

relax_nd(w) == ReqMap(wl[w].heavy)[relax_v(w)]

\* what one relax step did, read from the states before and after it
RelaxEffect(w) ==
    LET v == relax_v(w)
        nd == relax_nd(w)
        old == get_bucket(dist[v])
        new == get_bucket(nd)
        tombstone == old >= 0 /\ old # current_generation /\ old # new
        push == old = current_generation \/ old # new
    IN  IF nd < dist[v]
        THEN /\ dist' = [dist EXCEPT ![v] = nd]
             /\ IF tombstone
                THEN /\ \A i \in DOMAIN buckets : i # old => buckets'[i] = buckets[i]
                     /\ bucket_at(buckets'[old], position_in_bucket[v]) = 0 - 1
                     /\ \A k \in 0..(bucket_size(buckets[old]) - 1) :
                            k # position_in_bucket[v] =>
                                bucket_at(buckets'[old], k) = bucket_at(buckets[old], k)
                     /\ bucket_size(buckets'[old]) = bucket_size(buckets[old])
                ELSE buckets' = buckets
             /\ push <=> (wpc'[w] = "push_load" /\ wl'[w].v = v /\ wl'[w].new_bucket = new)
             /\ position_in_bucket' = position_in_bucket
        ELSE /\ dist' = dist
             /\ position_in_bucket' = position_in_bucket
             /\ buckets' = buckets
             /\ wpc'[w] # "push_load"

\* worker w executes the end of the push relax called and the assignment of the
\* returned index: line 88
PushReturnStep(w) == wpc[w] = "push_write" /\ wpc'[w] # "push_write"

\* the push put v into the bucket of its distance, at the index now recorded
PushEffect(w) ==
    LET v == wl[w].v
        new == get_bucket(dist[v])
    IN  /\ new = wl[w].new_bucket
        /\ position_in_bucket'[v] < bucket_size(buckets'[new])
        /\ bucket_at(buckets'[new], position_in_bucket'[v]) = v
        /\ \A u \in V \ {v} : position_in_bucket'[u] = position_in_bucket[u]
        /\ dist' = dist

\* C27: relax(v) with drained value nd < dist[v] writes a tombstone at
\* buckets[old][pos[v]] exactly when old >= 0, old # current_generation and
\* old # new, and pushes v into buckets[new] (recording the returned index in
\* pos[v]) exactly when old = current_generation or old # new; when
\* nd >= dist[v] it changes neither dist, pos nor any bucket.
C27_RelaxCases ==
    [][\A w \in Workers :
           /\ RelaxStep(w) => RelaxEffect(w)
           /\ PushReturnStep(w) => PushEffect(w)]_vars

\* a relax call has written a tombstone into the old bucket of its vertex and
\* stands before the push into the new one
C27_Witness ==
    \E w \in Workers :
        /\ wpc[w] = "push_load"
        /\ \E i \in DOMAIN buckets :
               /\ i # wl[w].new_bucket /\ i # current_generation
               /\ position_in_bucket[wl[w].v] < bucket_size(buckets[i])
               /\ bucket_at(buckets[i], position_in_bucket[wl[w].v]) = 0 - 1
               /\ \E d \in hist.drains : d.w = w /\ d.v = wl[w].v /\ d.updated

\* a relax call has drained a value that is not below the distance of its vertex
RelaxWithoutUpdate == \E d \in hist.drains : ~d.updated

\* the relax step of worker w writes a tombstone: the tests of lines 80 and 83
TombstoneStep(w) ==
    /\ RelaxStep(w)
    /\ relax_nd(w) < dist[relax_v(w)]
    /\ get_bucket(dist[relax_v(w)]) >= 0
    /\ get_bucket(dist[relax_v(w)]) # current_generation
    /\ get_bucket(dist[relax_v(w)]) # get_bucket(relax_nd(w))

\* position_in_bucket[v] is the index of a live entry of v in the bucket of dist[v]
OwnEntryAt(v) ==
    /\ position_in_bucket[v] >= 0
    /\ position_in_bucket[v] < bucket_size(buckets[get_bucket(dist[v])])
    /\ bucket_at(buckets[get_bucket(dist[v])], position_in_bucket[v]) = v

\* C28: whenever relax writes a tombstone at buckets[old][pos[v]], that slot
\* currently holds vertex v's own entry (pos[v] is the index of v's live entry
\* in the bucket of its current distance), so a tombstone never erases the
\* entry of another vertex.
C28_TombstoneErasesOwnEntry ==
    [][\A w \in Workers :
           TombstoneStep(w) =>
               /\ OwnEntryAt(relax_v(w))
               /\ \A u \in V \ {relax_v(w)} : \A i \in DOMAIN buckets :
                      u \in LiveIn(i) => u \in LiveIn(i)']_vars

\* a tombstone has just replaced the entry of a vertex in a bucket that still
\* holds the live entry of another vertex
C28_Witness ==
    \E w \in Workers :
        /\ wpc[w] = "push_load"
        /\ \E d \in hist.drains : d.w = w /\ d.v = wl[w].v /\ d.updated
        /\ \E i \in DOMAIN buckets :
               /\ i # wl[w].new_bucket /\ i # current_generation
               /\ position_in_bucket[wl[w].v] < bucket_size(buckets[i])
               /\ bucket_at(buckets[i], position_in_bucket[wl[w].v]) = 0 - 1
               /\ LiveIn(i) # {}

\* on graphs of two or more vertices, when a bucket begins every vertex whose
\* distance falls into that bucket or a later one is recorded at the index of
\* its own entry
TwoOrMore_PositionsWhenBucketBegins ==
    [][(n >= 2 /\ BucketBegins) =>
           \A v \in V :
               (dist[v] < INF_MAX /\ UnboundedIndex(dist[v]) >= hist.generation) =>
                   OwnEntryAt(v)']_vars

\* the controller is in Loop 2 (light requests) or Loop 3 (heavy requests)
InRelaxPhase(h) == cl.phase = (IF h THEN "C" ELSE "B")

\* the barrier that ends the relax phase has released the controller: lines 211, 234
AtRelaxBarrier(h) == cpc = "wait" /\ InRelaxPhase(h) /\ Released(Controller)

\* the relax calls of the current phase for vertex v
DrainsOf(v) == {d \in hist.drains : d.v = v}

\* at the barrier: each requested vertex was relaxed by one call, which
\* obtained the finite value; no other vertex was relaxed; at most one push
\* per vertex, by the worker of that call; the slots of the phase hold infinity
RelaxedOnce(h) ==
    /\ \A v \in Requested(h) :
           /\ Cardinality(DrainsOf(v)) = 1
           /\ \A d \in DrainsOf(v) : d.heavy = h /\ d.got < INF_MAX
    /\ \A d \in hist.drains : d.v \in Requested(h)
    /\ \A v \in V :
           /\ Cardinality({p \in hist.pushes : p.value = v}) <= 1
           /\ \A p \in hist.pushes :
                  p.value = v => \E d \in DrainsOf(v) : d.w = p.w /\ d.updated
    /\ \A v \in V : ReqMap(h)[v] = INF_MAX

\* worker w takes a step
StepOf(w) == wpc'[w] # wpc[w] \/ wl'[w] # wl[w]

\* a step that writes dist[v] or position_in_bucket[v] in a relax phase is a
\* step of the one worker whose relax call drained the slot of v
SingleWriter ==
    \A v \in V :
        ((cl.phase \in {"B", "C"}) /\
         (dist'[v] # dist[v] \/ position_in_bucket'[v] # position_in_bucket[v])) =>
            \E w \in Workers :
                /\ StepOf(w)
                /\ \A d \in DrainsOf(v)' : d.got < INF_MAX => d.w = w
                /\ \E d \in DrainsOf(v)' : d.got < INF_MAX

\* C29: within one relaxation phase each vertex with a pending request is
\* relaxed by exactly one worker exactly once, so dist[v] and pos[v] have at
\* most one writer per phase and every slot made finite during request
\* generation is drained back to infinity.
C29_OneRelaxPerVertexPerPhase ==
    /\ [](\A h \in BOOLEAN : AtRelaxBarrier(h) => RelaxedOnce(h))
    /\ [][SingleWriter]_vars

\* a relax phase has ended in which two workers each relaxed a vertex of their
\* own and both wrote a distance
C29_Witness ==
    /\ \E h \in BOOLEAN : AtRelaxBarrier(h)
    /\ \E d1 \in hist.drains : \E d2 \in hist.drains :
           d1.w # d2.w /\ d1.v # d2.v /\ d1.updated /\ d2.updated

\* worker w stands at an indexed read of bucket j: curr_bucket[node_idx], line 166
Reading(w, j) == wpc[w] = "scan" /\ j = current_generation

\* the controller stands at its indexed reads of bucket j: lines 136-144
CtrlReading(j) == cpc = "while" /\ j = current_generation

\* worker w stands in a relax call that will write a tombstone into bucket j
Tombstoning(w, j) ==
    /\ wpc[w] = "xchg"
    /\ relax_nd(w) < dist[relax_v(w)]
    /\ j = get_bucket(dist[relax_v(w)])
    /\ j # current_generation
    /\ j # get_bucket(relax_nd(w))

\* worker w is inside push on bucket j: it has loaded the tail and has not returned
Pushing(w, j) == wpc[w] \in {"push_cas", "push_write"} /\ wl[w].new_bucket = j

\* the controller stands at curr_bucket.clear() of bucket j: line 189
Clearing(j) == cpc = "wait" /\ cl.phase = "A" /\ Released(Controller) /\ j = current_generation

\* the indexed reads of a bucket meet neither a push nor a clear on that bucket
ReadsSeparated ==
    \A j \in DOMAIN buckets :
        /\ \A w \in Workers :
               Reading(w, j) =>
                   ~Clearing(j) /\ \A w2 \in Workers \ {w} : ~Pushing(w2, j)
        /\ CtrlReading(j) => \A w \in Workers : ~Pushing(w, j)

\* the tombstone writes on a bucket meet neither a push nor a clear on that bucket
TombstonesSeparated ==
    \A j \in DOMAIN buckets : \A w \in Workers :
        Tombstoning(w, j) =>
            ~Clearing(j) /\ \A w2 \in Workers \ {w} : ~Pushing(w2, j)

\* C30: the orchestrator never lets an indexed read or a tombstone write on a
\* bucket run concurrently with a push or a clear on that same bucket; barriers
\* always separate them.
C30_BarriersSeparateBucketAccesses == ReadsSeparated /\ TombstonesSeparated

\* no tombstone write meets a clear of its bucket
TombstonesNeverMeetClear ==
    \A j \in DOMAIN buckets : \A w \in Workers : Tombstoning(w, j) => ~Clearing(j)

\* a tombstone write that meets a push on its bucket goes to another slot than
\* the one the push has reserved
MeetingWritesHitDistinctSlots ==
    \A j \in DOMAIN buckets : \A w \in Workers : \A w2 \in Workers \ {w} :
        (Tombstoning(w, j) /\ wpc[w2] = "push_write" /\ wl[w2].new_bucket = j) =>
            position_in_bucket[relax_v(w)] #
                bucket_relative_idx(buckets[j], wl[w2].current_tail)

\* worker w is inside a relax call: lines 76-91
InRelaxCall(w) == wpc[w] \in {"xchg", "push_load", "push_cas", "push_write"}

\* worker w is inside Loop 1's closure, add_request included: lines 155-183
InGenTask(w) == wpc[w] \in {"scan", "load2", "cas1", "fetch", "store", "load3", "cas2"}

\* worker w has been handed Loop 1's closure and has not started it
GenTaskPending(w) == wpc[w] = "wait" /\ ready[w] /\ tasks[w].kind = "gen"

\* the entries of the current bucket are those pushed since its last clear
CurrentBucketCleared ==
    bucket_size(buckets[current_generation]) =
        Cardinality({p \in hist.pushes : p.bucket = current_generation}) +
        Cardinality({w \in Workers :
                        wpc[w] = "push_write" /\ wl[w].new_bucket = current_generation})

\* C31: no relax call of a light-relaxation phase starts until every
\* add_request call of the preceding request-generation phase has completed and
\* the current bucket has been cleared, so each drain observes the final
\* minimum of its slot.
C31_LightRelaxAfterRequestsAndClear ==
    \A w \in Workers :
        (InRelaxCall(w) /\ ~wl[w].heavy) =>
            /\ cl.phase = "B"
            /\ \A w2 \in Workers : ~InGenTask(w2) /\ ~GenTaskPending(w2)
            /\ CurrentBucketCleared
            /\ wpc[w] = "xchg" =>
                   /\ relax_nd(w) < INF_MAX
                   /\ relax_nd(w) = hist.issued[FALSE][relax_v(w)]
                   /\ relax_nd(w) = hist.completed[FALSE][relax_v(w)]

\* a light relax call is about to drain a slot that two add_request calls of
\* the phase before wrote to, in a run with two workers
C31_Witness ==
    /\ num_threads = 2
    /\ \E w \in Workers :
           /\ wpc[w] = "xchg" /\ ~wl[w].heavy
           /\ hist.calls[FALSE][relax_v(w)] >= 2

\* the vertices whose distance falls into a bucket the for statement has left
SettledBefore(g) == {u \in V : dist[u] < INF_MAX /\ UnboundedIndex(dist[u]) < g}

\* the heavy edges of the adjacency list of u
HeavyEdgesOf(u) == {i \in 1..adj_size(graph, u) : is_heavy(graph.adj[u][i].w)}

\* C32: before the outer loop begins processing the next bucket, every heavy
\* edge (u,v,w) leaving a vertex u that was settled in the current bucket has
\* been relaxed with u's final distance, i.e. dist[v] <= dist[u] + w holds for it.
C32_HeavyEdgesRelaxedBeforeNextBucket ==
    cpc = "for" =>
        \A u \in SettledBefore(hist.generation) : \A i \in HeavyEdgesOf(u) :
            dist[graph.adj[u][i].v] <= dist[u] + graph.adj[u][i].w

\* the for statement stands before a later bucket after two workers relaxed
\* heavy requests, one of which gave a vertex the distance it has
C32_Witness ==
    /\ cpc = "for" /\ hist.generation >= 1 /\ num_threads = 2
    /\ \E u \in SettledBefore(hist.generation) : \E i \in HeavyEdgesOf(u) :
           /\ graph.adj[u][i].v # u
           /\ graph.adj[u][i].w > 0
           /\ dist[graph.adj[u][i].v] = dist[u] + graph.adj[u][i].w
           /\ UnboundedIndex(dist[u]) = hist.generation - 1

\* a light relax step of worker w lowers its vertex into the bucket being drained
LowersIntoCurrent(w) ==
    /\ RelaxStep(w)
    /\ ~wl[w].heavy
    /\ relax_nd(w) < dist[relax_v(w)]
    /\ get_bucket(relax_nd(w)) = current_generation

\* vertex v is a live entry of the bucket snapshot and each of its edges was examined
ProcessedInSnapshot(v) ==
    \E i \in 0..(cl.curr_bucket_size - 1) :
        /\ bucket_at(buckets[current_generation], i) = v
        /\ \A k \in 0..(adj_size(graph, v) - 1) :
               <<i, k>> \in DOMAIN hist.examined /\ hist.examined[<<i, k>>] = 1

\* C33: a vertex whose distance is lowered during light relaxation while its
\* new bucket is the current generation is pushed into the current bucket again
\* and is processed by request generation in the next inner-loop iteration,
\* before current_generation advances.
C33_ReloweredVertexProcessedAgain ==
    /\ [][\A w \in Workers :
              LowersIntoCurrent(w) =>
                  /\ wpc'[w] = "push_load"
                  /\ wl'[w].v = relax_v(w)
                  /\ wl'[w].new_bucket = current_generation]_vars
    /\ [](AtRelaxBarrier(FALSE) => \A v \in hist.relowered : OwnEntryAt(v))
    /\ [](AtGenBarrier => \A v \in hist.relowered : ProcessedInSnapshot(v))
    /\ [](cl.phase = "C" => hist.relowered = {})
    /\ [][current_generation' # current_generation => hist.relowered = {}]_vars

\* request generation has ended for a snapshot that holds a vertex the light
\* phase before lowered within the bucket being drained, and the vertex has edges
C33_Witness ==
    /\ AtGenBarrier
    /\ \E v \in hist.relowered : adj_size(graph, v) > 0 /\ ProcessedInSnapshot(v)

\* worker w is inside the push of a relax call, on bucket j
InsertingInto(w, j) ==
    wpc[w] \in {"push_load", "push_cas", "push_write"} /\ wl[w].new_bucket = j

\* C34: heavy relaxation (Phase C) never inserts a vertex into the bucket of the
\* current generation: only light relaxation re-inserts into the bucket being
\* drained, and that bucket is still empty when Phase C ends.
C34_HeavyNeverInsertsIntoCurrent ==
    /\ \A w \in Workers :
           InsertingInto(w, current_generation) => (cl.phase = "B" /\ ~wl[w].heavy)
    /\ cl.phase = "C" =>
           /\ \A p \in hist.pushes : p.bucket # current_generation
           /\ bucket_empty(buckets[current_generation])
           /\ bucket_size(buckets[current_generation]) = 0

\* Phase C has ended after its two workers each pushed a vertex into a later bucket
C34_Witness ==
    /\ AtRelaxBarrier(TRUE) /\ num_threads = 2
    /\ \E p1 \in hist.pushes : \E p2 \in hist.pushes : p1.w # p2.w
    /\ bucket_empty(buckets[current_generation])

\* the step hands a task to worker w: FixedTaskPool::push, or the loop of stop()
Submits(w) == Len(hist'.submitted[w]) = Len(hist.submitted[w]) + 1

\* worker w runs no task: it is inside arrive_and_wait or ready[i].wait(false)
Idle(w) == wpc[w] \in {"leave", "wait"}

\* a task is handed to a worker that is idle with its flag false and was
\* handed none since the last barrier; the flag is true afterwards
SubmitsToIdleWorker ==
    \A w \in Workers :
        Submits(w) =>
            /\ Idle(w)
            /\ ~ready[w]
            /\ hist.submitted[w] = << >>
            /\ ready'[w]

\* the controller has left a submission loop and stands before its arrive_and_wait
SubmissionDone == cpc = "arrive"

\* C35: in every phase the controller submits exactly one task to each of the N
\* workers, also to workers whose range is empty, and only while that worker is
\* idle with its ready flag false; therefore every barrier rendezvous of width
\* N+1 completes and no epoch deadlocks or loses a ready signal.
C35_OneTaskPerWorkerPerPhase ==
    /\ [][SubmitsToIdleWorker]_vars
    /\ [](SubmissionDone => \A w \in Workers : Len(hist.submitted[w]) = 1)
    /\ SubmissionDone ~> CtrlReleased

\* a barrier has released the controller in a phase in which one of two
\* workers was handed an empty range and ran it
C35_Witness ==
    /\ CtrlReleased /\ num_threads = 2
    /\ \A w \in Workers : Len(hist.submitted[w]) = 1 /\ hist.ran[w] = hist.submitted[w]
    /\ \E w \in Workers : hist.ran[w][1].a >= hist.ran[w][1].b
    /\ \E w \in Workers : hist.ran[w][1].a < hist.ran[w][1].b

\* the parts that need no fairness, for either solver: when a submission loop
\* is left every worker was handed one task
OneTaskEach == SubmissionDone => \A w \in Workers : Len(hist.submitted[w]) = 1

\* every task is handed to an idle worker whose flag is false
SubmissionsSafe == [][SubmitsToIdleWorker]_vars

\* the live entries of vertex v, each as <<bucket slot, index in the bucket>>
EntriesOf(v) ==
    {p \in (DOMAIN buckets) \X (0..n) :
        /\ p[2] < bucket_size(buckets[p[1]])
        /\ bucket_at(buckets[p[1]], p[2]) = v}

\* no worker runs a task: the controller is between two phases
Quiescent ==
    /\ \A w \in Workers : Idle(w) /\ ~ready[w]
    /\ cpc \in {"for", "while", "wait", "push"}

\* C36: at every quiescent point between phases, each vertex has at most one
\* live (non-tombstoned) entry across all bucket slots.
C36_AtMostOneLiveEntry ==
    Quiescent => \A v \in V : Cardinality(EntriesOf(v)) <= 1

\* a relax phase has ended in which a vertex was moved from one bucket, where
\* its tombstone stands, to another, where its one live entry is
C36_Witness ==
    /\ Quiescent /\ CtrlReleased
    /\ \E d \in hist.drains :
           /\ d.updated
           /\ Cardinality(EntriesOf(d.v)) = 1
           /\ \E i \in DOMAIN buckets :
                  /\ i # get_bucket(dist[d.v])
                  /\ \E k \in 0..(bucket_size(buckets[i]) - 1) :
                         bucket_at(buckets[i], k) = 0 - 1

\* the weights, up to bound, of the walks of g from src to each vertex: the
\* empty walk at src, and every walk extended by an edge out of its end
WalkStep(g, W, bound) ==
    [v \in DOMAIN g.adj |->
        W[v] \cup UNION {UNION {{x + e.w : x \in W[u]} \cap (0..bound) :
                                   e \in {g.adj[u][i] : i \in DOMAIN g.adj[u]} \cap
                                          [v : {v}, w : 0..g.max_L]} :
                            u \in DOMAIN g.adj}]

RECURSIVE WalkClosure(_, _, _)
WalkClosure(g, W, bound) ==
    LET next == WalkStep(g, W, bound)
    IN  IF next = W THEN W ELSE WalkClosure(g, next, bound)

\* no value compute stores exceeds the weight of graph.size() heaviest edges
WalkBound(g) == graph_size(g) * Max(get_max_edge_weight(g), 0)

WalkWeights(g, src) ==
    WalkClosure(g, [v \in DOMAIN g.adj |-> IF v = src THEN {0} ELSE {}], WalkBound(g))

\* the tentative values compute holds for v: dist[v] and the two request slots
TentativeValues(v) == {dist[v], light_request_map[v], heavy_request_map[v]}

\* x is the weight of a walk from the source to v, so no lower than the weight
\* of a lightest path to v
SoundValue(v, x) ==
    x < INF_MAX =>
        /\ x \in WalkWeights(graph, source)[v]
        /\ x >= ShortestDistances(graph, source)[v]

\* every tentative value of every vertex is sound
NeverUnderEstimates ==
    solver = 1 => \A v \in V : \A x \in TentativeValues(v) : SoundValue(v, x)

\* every value a step newly writes into dist or into a request slot is sound
WritesSoundValues ==
    solver = 1 =>
        \A v \in V : \A x \in TentativeValues(v)' \ TentativeValues(v) : SoundValue(v, x)

\* C37: in every state of CompletelyBalancedDeltaStepping::compute, every
\* finite dist[v] and every finite request slot of v is the weight of a walk
\* of the graph from the source to v, and so is never below the weight of a
\* lightest path to v: it is so when compute starts, and every step that
\* writes a new value into dist[v] or into a request slot of v writes such a
\* weight.
C37_NeverUnderEstimates == NeverUnderEstimates /\ [][WritesSoundValues]_vars

\* a vertex holds a finite distance above the weight of its lightest path
\* while a request slot holds a finite value, in a run with two workers
C37_Witness ==
    /\ solver = 1 /\ num_threads = 2
    /\ \E v \in V : dist[v] < INF_MAX /\ dist[v] > ShortestDistances(graph, source)[v]
    /\ \E v \in V : \E h \in BOOLEAN : ReqMap(h)[v] < INF_MAX

\* the controller is inside FlexiblePool::reset, past its line 83
InReset == cpc \in {"q_reset_push", "q_reset_join"}

\* the RESET tasks reset has pushed so far
ResetsPushed == IF cpc = "q_reset_push" THEN cl.idx ELSE num_threads

\* the RESET tasks still in the queue
ResetsQueued == Cardinality({i \in 1..Len(tasks) : tasks[i].kind = "RESET"})

\* the workers that have taken a RESET task since reset began
ResetTakers == {w \in Workers : wpc[w] \in {"reset_ack", "idle"}}

\* while reset runs, every RESET pushed is in the queue or was taken by a
\* worker of its own, which has not popped since
ResetsAccounted ==
    (solver = 4 /\ InReset) =>
        /\ ResetsPushed = ResetsQueued + Cardinality(ResetTakers)
        /\ \A w \in ResetTakers : wl[w].task.kind = "RESET"

\* the step on which reset returns: its second wait ends, lines 92-94
ResetReturns == cpc = "q_reset_join" /\ cpc' # "q_reset_join"

\* nothing is queued and every worker took a RESET last and is back at
\* running.wait(false) with running false
Joined ==
    /\ tasks = << >>
    /\ ~running
    /\ num_active_workers = 0
    /\ \A w \in Workers : wpc[w] = "idle" /\ wl[w].task.kind = "RESET"

\* a worker leaves running.wait(false)
WakesUp(w) == wpc[w] = "idle" /\ wpc'[w] # "idle"

\* C38: FlexiblePool::reset is a join. It returns only when every task pushed
\* since the preceding start has been popped and run to its end and every
\* worker has taken a RESET and gone back to running.wait(false), with
\* nothing left in the queue; while it runs each RESET is taken by a worker of
\* its own, and no worker that took one wakes up before reset has returned.
C38_ResetIsJoin ==
    /\ [][solver = 4 /\ ResetReturns => Joined]_vars
    /\ []ResetsAccounted
    /\ [][solver = 4 /\ InReset => \A w \in Workers : ~WakesUp(w)]_vars

\* reset has returned after Loop 1 of a bucket of two vertices run by two
\* workers, and Loop 2 is about to start
C38_Witness ==
    /\ solver = 4 /\ num_threads = 2
    /\ cpc = "q_start" /\ cl.phase = "light" /\ Len(cl.curr_bucket) = 2
    /\ Joined

\* the queue of the pool holds an element
NonEmpty == tasks.node[tasks.head].next # nullptr

\* worker w is blocked in not_empty.wait inside pop
BlockedInPop(w) == w \in Workers /\ wpc[w] = "c_blocked"

\* worker w has taken an element out of the queue and is returning from pop
ReturnsElement(w) == w \in Workers /\ wpc[w] \in {"c_unlock", "c_run"}

\* C39: a consumer blocked in HeadTailLockQueueBlocking::pop while the queue
\* holds an element is eventually woken and returns an element, unless other
\* consumers empty the queue first: no notification is lost, however the push
\* interleaves with the consumer's test of head->next and its wait.
C39_NoLostWakeUp ==
    \A w \in 0..(MaxThreads - 1) :
        (solver = 5 /\ BlockedInPop(w) /\ NonEmpty) ~> (ReturnsElement(w) \/ ~NonEmpty)

\* the owner has pushed everything and waits in join, the queue holds
\* elements, and every worker still running is blocked in wait: no thread has a
\* step of its code left
Stranded ==
    /\ solver = 5 /\ cpc = "b_join" /\ NonEmpty
    /\ \A w \in Workers : wpc[w] \in {"c_blocked", "exited"}
    /\ \E w \in Workers : wpc[w] = "c_blocked"

\* the pool is never stranded
NeverStranded == ~Stranded

\* the nodes reached from address a of the stack, at most fuel of them
RECURSIVE Chain(_, _)
Chain(a, fuel) ==
    IF a = nullptr \/ fuel = 0 THEN << >>
    ELSE <<a>> \o Chain(tasks.node[a].next, fuel - 1)

\* the nodes of the stack, from head on
Stacked == Chain(tasks.head, Cardinality(DOMAIN tasks.node) + 1)

\* how often element e is in the stack, is held by a pop between its exchange
\* and its read, and was returned
TimesStacked(e) ==
    Cardinality({i \in 1..Len(Stacked) : tasks.node[Stacked[i]].data = e})

TimesHeld(e) ==
    Cardinality({w \in Workers :
                    wpc[w] = "pop_read" /\ tasks.node[wl[w].old_head].data = e})

TimesReturned(e) ==
    Cardinality({i \in 1..Len(hist.stack_out) : hist.stack_out[i] = e})

\* every element pushed is in the stack once or with one pop, never both
NothingLostOrDoubled ==
    solver = 6 =>
        /\ \A e \in hist.stack_in : TimesStacked(e) + TimesHeld(e) + TimesReturned(e) = 1
        /\ \A i \in 1..Len(hist.stack_out) : hist.stack_out[i] \in hist.stack_in

\* no pop has read or deleted a node that was deleted
NoUseAfterFree == solver = 6 => ub = {}

\* C40: under every interleaving of push and pop calls on one LockFreeStack,
\* every element pushed is either in the stack or returned by exactly one pop,
\* none is lost and none returned twice, and no pop reads a node another pop
\* has deleted.
C40_StackKeepsEveryElement == NothingLostOrDoubled /\ NoUseAfterFree

\* an element is lost or doubled though no pop has read a deleted node so far
LostWithoutUseAfterFree == solver = 6 /\ ub = {} /\ ~NothingLostOrDoubled

NeverLostWithoutUseAfterFree == ~LostWithoutUseAfterFree

====
